---------------------------- MODULE Spec2Model ----------------------------
(***************************************************************************)
(* Azure Disk Encryption for Linux (VMEncryption/main/handle.py): the      *)
(* resumable in-place encryption / decryption phase machines, the daemon    *)
(* that drives them under the process lock, and the persisted records       *)
(* (OnGoingItemConfig, crypt-item registry, encryption / decryption marks,  *)
(* EncryptionConfig) they read and write.                                   *)
(*                                                                          *)
(* Every action is one crash-atomic step of the code: a group of statements *)
(* that ends with a commit to stable storage or with the return of a device *)
(* primitive.  A process can be killed between any two steps.               *)
(***************************************************************************)
EXTENDS Naturals, Integers, Sequences, FiniteSets, TLC

(***************************************************************************)
(* Bounds of the model.                                                     *)
(***************************************************************************)
\* how many primitive failures, kills and reboots one behaviour may contain
MaxFaults == 1
\* how many settings (sequence numbers) the agent hands to the handler
MaxSeq == 1
\* the longest list of device items the selection is checked on
MaxEnumerated == 3
\* how many settings the agent hands to a VM whose disks are encrypted
MaxRotations == 2
\* the key slots of a LUKS header
NumSlots == 3

(***************************************************************************)
(* Program constants (Common.py, CommonVariables), in scaled units.         *)
(***************************************************************************)
luks_header_size == 1
default_block_size == 2
default_file_system == "ext4"

EncryptionPhaseBackupHeader == "BackupHeader"
EncryptionPhaseEncryptDevice == "EncryptDevice"
EncryptionPhaseCopyData == "EncryptionCopyData"
EncryptionPhaseRecoverHeader == "RecoverHeader"
EncryptionPhaseDone == "Done"
DecryptionPhaseCopyData == "DecryptionCopyData"
DecryptionPhaseDone == "Done"
\* the value a Python function returns when it falls off its end
PyNone == "None"

EnableEncryption == "EnableEncryption"
EnableEncryptionFormat == "EnableEncryptionFormat"
EnableEncryptionFormatAll == "EnableEncryptionFormatAll"
DisableEncryption == "DisableEncryption"
VolumeTypeData == "Data"
VolumeTypeAll == "All"
VolumeTypeOS == "OS"

(***************************************************************************)
(* The machine: two daemon processes can be started, and the VM has two     *)
(* data disks (lsblk order).  uuid4() is modelled as the choice of the      *)
(* first mapper name that nothing refers to.                                *)
(***************************************************************************)
Procs == {"daemon1", "daemon2"}
NoProc == "nobody"
\* the data disks a VM can have, in lsblk order; the ones attached are the
\* domain of file_system
DeviceNames == <<"sdc", "sdd", "sde", "sdf">>
\* the data disks of the usual VM, the second one mounted
Devices == {"sdc", "sdd"}
\* the data disks of a VM with three unmounted data disks
UnmountedDevices == {"sdc", "sde", "sdf"}
DeviceSize == [sdc |-> 4, sdd |-> 3, sde |-> 3, sdf |-> 3]
DeviceMountPoint == [sdb |-> "/mnt/azure_bek_disk", sdc |-> "",
                     sdd |-> "/data", sde |-> "", sdf |-> "",
                     sdg |-> "/mnt/resource"]
\* what lsblk can list besides the data disks: the volume that holds the
\* passphrase and the resource disk
passphrase_device == "sdb"
BlockDevices == {"sdb", "sdc", "sdd", "sde", "sdf", "sdg"}
MapperNames == <<"uuid1", "uuid2", "uuid3", "uuid4">>

\* paths are pairs <<kind, name>>
NonePath == <<"", "">>
DevPath(d) == <<"/dev", d>>
DevIdPath(d) == <<"/dev/disk/by-id", d>>
DevUuidPath(d) == <<"/dev/disk/by-uuid", d>>
MapperPath(m) == <<"/dev/mapper", m>>
HeaderFilePath(m) == <<"luks_header", m>>
copy_header_slice_file_path == <<"file", "copy_header_slice_file">>
\* CryptItem.luks_header_path of a volume whose header is stored in place
HeaderSentinel == <<"None", "">>
\* CryptItem.mount_point of a volume with no mount point
MountSentinel == "None"

VARIABLES
    ongoing_item_config,  \* the persisted OnGoingItemConfig record
    crypt_items,          \* the crypt-item registry, a sequence of CryptItems
    encryption_marker,    \* the persisted EncryptionMarkConfig
    decryption_marker,    \* the persisted DecryptionMarkConfig
    encryption_config,    \* the persisted EncryptionConfig
    bek_passphrase,       \* the passphrase file exists on the BEK volume
    header_slice_file,    \* the scratch file with the backed-up header exists
    mapper_open,          \* the mapper names that exist under /dev/mapper
    file_system,          \* lsblk's file system of each data disk
    os_state,             \* state of the OS-volume encryption state machine
    os_supported,         \* the distro has an OS-volume encryption state machine
    lock,                 \* holder of the daemon process lock
    pc,                   \* where each daemon process is
    loc,                  \* the local variables of each daemon process
    status,               \* the last status each daemon process reported
    cur_seq,              \* sequence number of the current settings
    last_seq,             \* sequence number hutil.save_seq() recorded
    settings,             \* the current public settings
    handler_exit,         \* how the last run of the handler ended
    passphrase,           \* the passphrase of the current settings, "" if none
    keyslots,             \* the passphrase in each LUKS key slot of a volume
    bek_file,             \* content of the key file on the BEK volume
    bek_backup,           \* content of the backup of the key file, "" if none
    faults                \* failures, kills and reboots so far

persisted == <<ongoing_item_config, crypt_items, encryption_marker,
               decryption_marker, encryption_config, bek_passphrase,
               header_slice_file>>
environment == <<mapper_open, file_system, os_state, os_supported>>
processes == <<lock, pc, loc, status>>
handler == <<cur_seq, last_seq, settings, handler_exit, passphrase, keyslots,
             bek_file, bek_backup>>
vars == <<persisted, environment, processes, handler, faults>>

(***************************************************************************)
(* Records.                                                                 *)
(***************************************************************************)
\* no OnGoingItemConfig file (also what clear_config() leaves)
NoOngoingItemConfig ==
    [exists |-> FALSE, phase |-> "", mapper_name |-> "",
     original_dev_name_path |-> NonePath, original_dev_path |-> NonePath,
     device_size |-> 0, file_system |-> "", mount_point |-> "",
     luks_header_file_path |-> NonePath, header_slice_file_path |-> NonePath,
     current_slice_index |-> 0, current_block_size |-> 0,
     current_total_copy_size |-> 0, current_source_path |-> NonePath,
     current_destination |-> NonePath, from_end |-> FALSE]

NoMark ==
    [exists |-> FALSE, command |-> "", volume_type |-> "",
     disk_format_query |-> ""]
NoEncryptionConfig ==
    [exists |-> FALSE, volume_type |-> "", secret_seq_num |-> -1]

NoCryptItem ==
    [mapper_name |-> "", dev_path |-> NonePath, luks_header_path |-> NonePath,
     file_system |-> "", mount_point |-> "", uses_cleartext_key |-> FALSE,
     current_luks_slot |-> 0]

\* the locals of a daemon process that is not running
NoLocals ==
    [machine |-> "", current_phase |-> "", mapper_name |-> "", dev |-> "",
     resumed |-> FALSE, todo_devices |-> <<>>, todo_items |-> <<>>,
     crypt_item |-> NoCryptItem, mapper_size |-> 0, ret |-> "",
     failed |-> FALSE, prims |-> {}, os_items_to_stamp |-> FALSE,
     umounted |-> {}, invocations |-> 0]

(***************************************************************************)
(* Helpers.                                                                 *)
(***************************************************************************)
\* none_or_empty(obj), for a path
none_or_empty(obj) == obj = NonePath

RegisteredNames == {crypt_items[i].mapper_name : i \in DOMAIN crypt_items}

\* whether another primitive failure, kill or reboot may still happen
CanFail == faults < MaxFaults

\* uuid.uuid4(): a name nothing refers to
NameInUse(m) ==
    \/ m \in RegisteredNames
    \/ m \in mapper_open
    \/ ongoing_item_config.mapper_name = m
    \/ \E p \in Procs : loc[p].mapper_name = m
uuid4 ==
    LET free == {i \in DOMAIN MapperNames : ~NameInUse(MapperNames[i])}
        first == CHOOSE i \in free : \A j \in free : i <= j
    IN  IF free = {} THEN "" ELSE MapperNames[first]


\* the outcomes a device primitive can have: success, or failure while the
\* behaviour may still contain one
Outcomes == IF CanFail THEN {TRUE, FALSE} ELSE {TRUE}
Count(ok) == faults' = IF ok THEN faults ELSE faults + 1

\* loc' with the locals of p replaced
SetLocals(p, r) == loc' = [loc EXCEPT ![p] = r]
Goto(p, label) == pc' = [pc EXCEPT ![p] = label]
\* the machine returns `phase` to its caller
Return(p, phase, failed, prim) ==
    /\ SetLocals(p, [loc[p] EXCEPT !.ret = phase,
                                   !.failed = @ \/ failed,
                                   !.prims = @ \cup prim])
    /\ Goto(p, "machine_returned")

(***************************************************************************)
(* DiskUtil.copy(ongoing_item_config): copies current_total_copy_size in    *)
(* slices of current_block_size, committing the slice cursor after each     *)
(* slice; it starts at the committed cursor.                                *)
(***************************************************************************)
TotalSlices(cfg) ==
    (cfg.current_total_copy_size + cfg.current_block_size - 1)
        \div cfg.current_block_size
CopyFinished(cfg) == cfg.current_slice_index >= TotalSlices(cfg)
\* one slice is copied and the cursor committed
CopySlice(p) ==
    /\ ~CopyFinished(ongoing_item_config)
    /\ ongoing_item_config' =
           [ongoing_item_config EXCEPT !.current_slice_index = @ + 1]
    /\ SetLocals(p, [loc[p] EXCEPT !.prims = @ \cup {"copy"}])
    /\ UNCHANGED <<pc, faults>>
\* the copy of a slice fails: copy returns an error code
CopyError(p) ==
    /\ ~CopyFinished(ongoing_item_config)
    /\ CanFail
    /\ faults' = faults + 1

(***************************************************************************)
(* DiskUtil.add_crypt_item / remove_crypt_item / update_crypt_item /        *)
(* get_crypt_items: the registry.  add rejects a mapper name that is        *)
(* already registered; get_crypt_items decodes the header sentinel.         *)
(***************************************************************************)
\* the item is appended whatever is registered
add_crypt_item_unchecked(items, item) == Append(items, item)
add_crypt_item(items, item) ==
    IF item.mapper_name \in {items[i].mapper_name : i \in DOMAIN items}
    THEN items
    ELSE Append(items, item)
remove_crypt_item(items, item) ==
    SelectSeq(items, LAMBDA it : it.mapper_name # item.mapper_name)
update_crypt_item(items, item) ==
    [i \in DOMAIN items |->
        IF items[i].mapper_name = item.mapper_name THEN item ELSE items[i]]
get_crypt_items(items) ==
    [i \in DOMAIN items |->
        IF items[i].luks_header_path = HeaderSentinel
        THEN [items[i] EXCEPT !.luks_header_path = NonePath]
        ELSE items[i]]

(***************************************************************************)
(* encrypt_inplace_without_separate_header_file                             *)
(***************************************************************************)
\* the first commit leaves the mapper name out
WoFreshConfigUnnamed(d, m) ==
    [NoOngoingItemConfig EXCEPT
        !.exists = TRUE,
        !.current_block_size = default_block_size,
        !.current_slice_index = 0,
        !.device_size = DeviceSize[d],
        !.file_system = file_system[d],
        !.luks_header_file_path = NonePath,
        !.mapper_name = "",
        !.mount_point = DeviceMountPoint[d],
        !.original_dev_name_path = DevPath(d),
        !.original_dev_path = DevPath(d),
        !.phase = EncryptionPhaseBackupHeader]
\* the OnGoingItemConfig a fresh operation on device d commits
WoFreshConfig(d, m) ==
    [NoOngoingItemConfig EXCEPT
        !.exists = TRUE,
        !.current_block_size = default_block_size,
        !.current_slice_index = 0,
        !.device_size = DeviceSize[d],
        !.file_system = file_system[d],
        !.luks_header_file_path = NonePath,
        !.mapper_name = m,
        !.mount_point = DeviceMountPoint[d],
        !.original_dev_name_path = DevPath(d),
        !.original_dev_path = DevPath(d),
        !.phase = EncryptionPhaseBackupHeader]

\* a fresh call: the config is created and committed, the phase read back
WoFresh(p) ==
    /\ pc[p] = "wo_fresh"
    /\ uuid4 # ""
    /\ ongoing_item_config' = WoFreshConfig(loc[p].dev, uuid4)
    /\ SetLocals(p, [loc[p] EXCEPT
           !.machine = "wo", !.mapper_name = uuid4,
           !.current_phase = EncryptionPhaseBackupHeader,
           !.ret = "", !.failed = FALSE, !.prims = {}])
    /\ Goto(p, "wo_loop")
    /\ UNCHANGED <<crypt_items, encryption_marker, decryption_marker,
                   encryption_config, bek_passphrase, header_slice_file,
                   environment, lock, status, handler, faults>>

\* the file systems the header can be relocated on
SupportedFileSystem(fs) == fs \in {"ext2", "ext3", "ext4"}

\* a failed preflight leaves the checkpoint
WoPreflightKeeps(cfg) == cfg
\* what the preflight of BackupHeader leaves of the config when it fails
WoPreflightFailedConfig(cfg) == NoOngoingItemConfig

\* the config committed before the header block is copied to the scratch file
WoBackupHeaderConfig(cfg) ==
    [cfg EXCEPT
        !.current_slice_index = 0,
        !.current_source_path = cfg.original_dev_path,
        !.current_destination = copy_header_slice_file_path,
        !.current_total_copy_size = default_block_size,
        !.from_end = FALSE,
        !.header_slice_file_path = copy_header_slice_file_path]

\* phase BackupHeader up to the header copy: file-system check, shrink check,
\* commit of the header-copy cursor, removal of a stale scratch file
WoBackupHeader(p) ==
    /\ pc[p] = "wo_loop"
    /\ loc[p].current_phase = EncryptionPhaseBackupHeader
    /\ IF ~SupportedFileSystem(ongoing_item_config.file_system)
       THEN /\ ongoing_item_config' = WoPreflightFailedConfig(ongoing_item_config)
            /\ Return(p, loc[p].current_phase, FALSE, {})
            /\ UNCHANGED <<header_slice_file, faults>>
       ELSE \E ok \in Outcomes :
            /\ Count(ok)
            /\ IF ok
               THEN /\ ongoing_item_config' = WoBackupHeaderConfig(ongoing_item_config)
                    /\ header_slice_file' = FALSE
                    /\ SetLocals(p, [loc[p] EXCEPT !.prims = @ \cup {"check_shrink_fs"}])
                    /\ Goto(p, "wo_backup_copy")
               ELSE /\ ongoing_item_config' = WoPreflightFailedConfig(ongoing_item_config)
                    /\ Return(p, loc[p].current_phase, TRUE, {"check_shrink_fs"})
                    /\ UNCHANGED header_slice_file
    /\ UNCHANGED <<crypt_items, encryption_marker, decryption_marker,
                   encryption_config, bek_passphrase,
                   environment, lock, status, handler>>

\* the commit after a phase jumps to Done
WoAdvanceSkipping(cfg, phase) == [cfg EXCEPT !.phase = EncryptionPhaseDone]
\* the config committed when a phase's work succeeded
WoAdvanceConfig(cfg, phase) ==
    IF phase = EncryptionPhaseBackupHeader
    THEN [cfg EXCEPT !.current_slice_index = 0,
                     !.phase = EncryptionPhaseEncryptDevice]
    ELSE IF phase = EncryptionPhaseEncryptDevice
    THEN [cfg EXCEPT !.current_slice_index = 0,
                     !.phase = EncryptionPhaseCopyData]
    ELSE IF phase = EncryptionPhaseCopyData
    THEN [cfg EXCEPT !.phase = EncryptionPhaseRecoverHeader]
    ELSE [cfg EXCEPT !.phase = EncryptionPhaseDone]

\* a failed primitive deletes the checkpoint
WoFailureClears(cfg) == NoOngoingItemConfig
\* what a failed primitive inside a phase leaves of the config: the machine
\* returns without touching it
WoFailedConfig(cfg) == cfg

\* the header copy of BackupHeader, slice by slice
WoBackupHeaderCopy(p) ==
    /\ pc[p] = "wo_backup_copy"
    /\ \/ /\ CopySlice(p)
          /\ header_slice_file' = TRUE
       \/ /\ CopyError(p)
          /\ ongoing_item_config' = WoFailedConfig(ongoing_item_config)
          /\ Return(p, loc[p].current_phase, TRUE, {"copy"})
          /\ UNCHANGED header_slice_file
       \/ /\ CopyFinished(ongoing_item_config)
          /\ ongoing_item_config' =
                 WoAdvanceConfig(ongoing_item_config, EncryptionPhaseBackupHeader)
          /\ SetLocals(p, [loc[p] EXCEPT
                 !.current_phase = EncryptionPhaseEncryptDevice])
          /\ Goto(p, "wo_loop")
          /\ UNCHANGED <<header_slice_file, faults>>
    /\ UNCHANGED <<crypt_items, encryption_marker, decryption_marker,
                   encryption_config, bek_passphrase,
                   environment, lock, status, handler>>

\* phase EncryptDevice: encrypt_disk on the original device, header in place
WoEncryptDevice(p) ==
    /\ pc[p] = "wo_loop"
    /\ loc[p].current_phase = EncryptionPhaseEncryptDevice
    /\ \E ok \in Outcomes :
        /\ Count(ok)
        /\ IF ok
           THEN /\ mapper_open' = mapper_open \cup {loc[p].mapper_name}
                /\ SetLocals(p, [loc[p] EXCEPT !.prims = @ \cup {"encrypt_disk"}])
                /\ Goto(p, "wo_encrypted")
                /\ UNCHANGED ongoing_item_config
           ELSE /\ ongoing_item_config' = WoFailedConfig(ongoing_item_config)
                /\ Return(p, loc[p].current_phase, TRUE, {"encrypt_disk"})
                /\ UNCHANGED mapper_open
    /\ UNCHANGED <<crypt_items, encryption_marker, decryption_marker,
                   encryption_config, bek_passphrase, header_slice_file,
                   file_system, os_state, os_supported, lock, status, handler>>

\* encrypt_disk succeeded: phase CopyData is committed
WoEncryptDeviceCommit(p) ==
    /\ pc[p] = "wo_encrypted"
    /\ ongoing_item_config' =
           WoAdvanceConfig(ongoing_item_config, EncryptionPhaseEncryptDevice)
    /\ SetLocals(p, [loc[p] EXCEPT !.current_phase = EncryptionPhaseCopyData])
    /\ Goto(p, "wo_loop")
    /\ UNCHANGED <<crypt_items, encryption_marker, decryption_marker,
                   encryption_config, bek_passphrase, header_slice_file,
                   environment, lock, status, handler, faults>>

\* the data copy is set up from the start of the device
WoCopyDataFromStart(cfg, m) ==
    [cfg EXCEPT
        !.current_destination = MapperPath(m),
        !.current_source_path = cfg.original_dev_path,
        !.current_total_copy_size = cfg.device_size - luks_header_size,
        !.from_end = FALSE,
        !.phase = EncryptionPhaseCopyData]
\* the config committed on every entry into phase CopyData
WoCopyDataConfig(cfg, m) ==
    [cfg EXCEPT
        !.current_destination = MapperPath(m),
        !.current_source_path = cfg.original_dev_path,
        !.current_total_copy_size = cfg.device_size - luks_header_size,
        !.from_end = TRUE,
        !.phase = EncryptionPhaseCopyData]

WoCopyData(p) ==
    /\ pc[p] = "wo_loop"
    /\ loc[p].current_phase = EncryptionPhaseCopyData
    /\ ongoing_item_config' =
           WoCopyDataConfig(ongoing_item_config, loc[p].mapper_name)
    /\ Goto(p, "wo_data_copy")
    /\ UNCHANGED <<crypt_items, encryption_marker, decryption_marker,
                   encryption_config, bek_passphrase, header_slice_file,
                   environment, lock, loc, status, handler, faults>>

\* the data copy of CopyData, slice by slice
WoCopyDataCopy(p) ==
    /\ pc[p] = "wo_data_copy"
    /\ \/ CopySlice(p)
       \/ /\ CopyError(p)
          /\ ongoing_item_config' = WoFailedConfig(ongoing_item_config)
          /\ Return(p, loc[p].current_phase, TRUE, {"copy"})
       \/ /\ CopyFinished(ongoing_item_config)
          /\ ongoing_item_config' =
                 WoAdvanceConfig(ongoing_item_config, EncryptionPhaseCopyData)
          /\ SetLocals(p, [loc[p] EXCEPT
                 !.current_phase = EncryptionPhaseRecoverHeader])
          /\ Goto(p, "wo_loop")
          /\ UNCHANGED faults
    /\ UNCHANGED <<crypt_items, encryption_marker, decryption_marker,
                   encryption_config, bek_passphrase, header_slice_file,
                   environment, lock, status, handler>>

\* the copy-back is set up on the cursor the data copy left
WoRecoverHeaderKeepsCursor(cfg, m) ==
    [cfg EXCEPT
        !.from_end = FALSE,
        !.current_source_path = cfg.header_slice_file_path,
        !.current_destination = MapperPath(m),
        !.current_total_copy_size = default_block_size]
\* the config committed on every entry into phase RecoverHeader
WoRecoverHeaderConfig(cfg, m) ==
    [cfg EXCEPT
        !.from_end = FALSE,
        !.current_slice_index = 0,
        !.current_source_path = cfg.header_slice_file_path,
        !.current_destination = MapperPath(m),
        !.current_total_copy_size = default_block_size]

WoRecoverHeader(p) ==
    /\ pc[p] = "wo_loop"
    /\ loc[p].current_phase = EncryptionPhaseRecoverHeader
    /\ ongoing_item_config' =
           WoRecoverHeaderConfig(ongoing_item_config, loc[p].mapper_name)
    /\ Goto(p, "wo_recover_copy")
    /\ UNCHANGED <<crypt_items, encryption_marker, decryption_marker,
                   encryption_config, bek_passphrase, header_slice_file,
                   environment, lock, loc, status, handler, faults>>

\* the copy of the scratch header block into the mapper device
WoRecoverHeaderCopy(p) ==
    /\ pc[p] = "wo_recover_copy"
    /\ \/ CopySlice(p)
       \/ /\ CopyError(p)
          /\ ongoing_item_config' = WoFailedConfig(ongoing_item_config)
          /\ Return(p, loc[p].current_phase, TRUE, {"copy"})
       \/ /\ CopyFinished(ongoing_item_config)
          /\ Goto(p, "wo_recover_add")
          /\ UNCHANGED <<ongoing_item_config, loc, faults>>
    /\ UNCHANGED <<crypt_items, encryption_marker, decryption_marker,
                   encryption_config, bek_passphrase, header_slice_file,
                   environment, lock, status, handler>>

\* mount_filesystem and remove_mount_info are called only for a volume
\* that has a mount point
MountPrims(cfg, prim) == IF cfg.mount_point = "" THEN {} ELSE {prim}

\* the item is registered as unlocked by a cleartext key
NewCryptItemCleartext(cfg, m, header) ==
    [mapper_name |-> m,
     dev_path |-> DevIdPath(cfg.original_dev_name_path[2]),
     luks_header_path |-> header,
     file_system |-> cfg.file_system,
     mount_point |-> IF cfg.mount_point = "" THEN MountSentinel
                     ELSE cfg.mount_point,
     uses_cleartext_key |-> TRUE,
     current_luks_slot |-> 0]
\* the CryptItem an in-place encryption registers
NewCryptItem(cfg, m, header) ==
    [mapper_name |-> m,
     dev_path |-> DevIdPath(cfg.original_dev_name_path[2]),
     luks_header_path |-> header,
     file_system |-> cfg.file_system,
     mount_point |-> IF cfg.mount_point = "" THEN MountSentinel
                     ELSE cfg.mount_point,
     uses_cleartext_key |-> FALSE,
     current_luks_slot |-> 0]

\* the header is back: mount the mapper device, register the CryptItem
WoRecoverAdd(p) ==
    /\ pc[p] = "wo_recover_add"
    /\ \E ok \in Outcomes :
        /\ Count(ok)
        /\ crypt_items' =
               IF ok
               THEN add_crypt_item(crypt_items,
                        NewCryptItem(ongoing_item_config, loc[p].mapper_name,
                                     HeaderSentinel))
               ELSE crypt_items
        /\ SetLocals(p, [loc[p] EXCEPT
               !.prims = @ \cup {"add_crypt_item"} \cup
                   MountPrims(ongoing_item_config, "mount_filesystem"),
               !.failed = @ \/ ~ok])
    /\ Goto(p, "wo_recover_clean")
    /\ UNCHANGED <<ongoing_item_config, encryption_marker, decryption_marker,
                   encryption_config, bek_passphrase, header_slice_file,
                   environment, lock, status, handler>>

\* the stale fstab entry (if the volume has a mount point) and the scratch
\* file are removed
WoRecoverClean(p) ==
    /\ pc[p] = "wo_recover_clean"
    /\ header_slice_file' = FALSE
    /\ SetLocals(p, [loc[p] EXCEPT
           !.prims = @ \cup MountPrims(ongoing_item_config, "remove_mount_info")])
    /\ Goto(p, "wo_recover_done")
    /\ UNCHANGED <<ongoing_item_config, crypt_items, encryption_marker,
                   decryption_marker, encryption_config, bek_passphrase,
                   environment, lock, status, handler, faults>>

\* phase Done is committed
WoRecoverDone(p) ==
    /\ pc[p] = "wo_recover_done"
    /\ ongoing_item_config' =
           WoAdvanceConfig(ongoing_item_config, EncryptionPhaseRecoverHeader)
    /\ SetLocals(p, [loc[p] EXCEPT !.current_phase = EncryptionPhaseDone])
    /\ Goto(p, "wo_expand")
    /\ UNCHANGED <<crypt_items, encryption_marker, decryption_marker,
                   encryption_config, bek_passphrase, header_slice_file,
                   environment, lock, status, handler, faults>>

\* expand_fs (its failure is only logged), clear_config, return Done
WoExpand(p) ==
    /\ pc[p] = "wo_expand"
    /\ \E ok \in Outcomes :
        /\ Count(ok)
        /\ Return(p, loc[p].current_phase, ~ok, {"expand_fs"})
    /\ ongoing_item_config' = NoOngoingItemConfig
    /\ UNCHANGED <<crypt_items, encryption_marker, decryption_marker,
                   encryption_config, bek_passphrase, header_slice_file,
                   environment, lock, status, handler>>

\* the value the function returns when its loop is not entered: a resume
\* that reads phase Done falls off the end of the function
WoLoopNotEntered(phase) == PyNone

WoResumedDone(p) ==
    /\ pc[p] = "wo_loop"
    /\ loc[p].current_phase = EncryptionPhaseDone
    /\ Return(p, WoLoopNotEntered(loc[p].current_phase), FALSE, {})
    /\ UNCHANGED <<persisted, environment, lock, status, handler, faults>>

encrypt_inplace_without_separate_header_file(p) ==
    \/ WoFresh(p)
    \/ WoBackupHeader(p)
    \/ WoBackupHeaderCopy(p)
    \/ WoEncryptDevice(p)
    \/ WoEncryptDeviceCommit(p)
    \/ WoCopyData(p)
    \/ WoCopyDataCopy(p)
    \/ WoRecoverHeader(p)
    \/ WoRecoverHeaderCopy(p)
    \/ WoRecoverAdd(p)
    \/ WoRecoverClean(p)
    \/ WoRecoverDone(p)
    \/ WoExpand(p)
    \/ WoResumedDone(p)

(***************************************************************************)
(* encrypt_inplace_with_separate_header_file                                *)
(***************************************************************************)
\* the OnGoingItemConfig a fresh operation on device d commits once the
\* header file is allocated
ShFreshConfig(d, m) ==
    [NoOngoingItemConfig EXCEPT
        !.exists = TRUE,
        !.current_block_size = default_block_size,
        !.current_slice_index = 0,
        !.device_size = DeviceSize[d],
        !.file_system = file_system[d],
        !.mapper_name = m,
        !.mount_point = DeviceMountPoint[d],
        !.original_dev_name_path = DevPath(d),
        !.original_dev_path = DevUuidPath(d),
        !.luks_header_file_path = HeaderFilePath(m),
        !.phase = EncryptionPhaseEncryptDevice]

\* a fresh call: create_luks_header, then the first commit
ShFresh(p) ==
    /\ pc[p] = "sh_fresh"
    /\ uuid4 # ""
    /\ \E ok \in Outcomes :
        /\ Count(ok)
        /\ IF ok
           THEN /\ ongoing_item_config' = ShFreshConfig(loc[p].dev, uuid4)
                /\ SetLocals(p, [loc[p] EXCEPT
                       !.machine = "sh", !.mapper_name = uuid4,
                       !.current_phase = EncryptionPhaseEncryptDevice,
                       !.ret = "", !.failed = FALSE,
                       !.prims = {"create_luks_header"}])
                /\ Goto(p, "sh_loop")
           ELSE /\ SetLocals(p, [loc[p] EXCEPT
                       !.machine = "sh", !.mapper_name = uuid4,
                       !.current_phase = EncryptionPhaseEncryptDevice,
                       !.ret = EncryptionPhaseEncryptDevice, !.failed = TRUE,
                       !.prims = {"create_luks_header"}])
                /\ Goto(p, "machine_returned")
                /\ UNCHANGED ongoing_item_config
    /\ UNCHANGED <<crypt_items, encryption_marker, decryption_marker,
                   encryption_config, bek_passphrase, header_slice_file,
                   environment, lock, status, handler>>

\* what a failed primitive inside a phase leaves of the config
ShFailedConfig(cfg) == cfg

\* phase EncryptDevice: encrypt_disk with the header file
ShEncryptDevice(p) ==
    /\ pc[p] = "sh_loop"
    /\ loc[p].current_phase = EncryptionPhaseEncryptDevice
    /\ \E ok \in Outcomes :
        /\ Count(ok)
        /\ IF ok
           THEN /\ mapper_open' = mapper_open \cup {loc[p].mapper_name}
                /\ SetLocals(p, [loc[p] EXCEPT !.prims = @ \cup {"encrypt_disk"}])
                /\ Goto(p, "sh_encrypted")
                /\ UNCHANGED ongoing_item_config
           ELSE /\ ongoing_item_config' = ShFailedConfig(ongoing_item_config)
                /\ Return(p, loc[p].current_phase, TRUE, {"encrypt_disk"})
                /\ UNCHANGED mapper_open
    /\ UNCHANGED <<crypt_items, encryption_marker, decryption_marker,
                   encryption_config, bek_passphrase, header_slice_file,
                   file_system, os_state, os_supported, lock, status, handler>>

\* the commit after a phase jumps to Done
ShAdvanceSkipping(cfg, phase) == [cfg EXCEPT !.phase = EncryptionPhaseDone]
\* the config committed when a phase's work succeeded
ShAdvanceConfig(cfg, phase) ==
    IF phase = EncryptionPhaseEncryptDevice
    THEN [cfg EXCEPT !.phase = EncryptionPhaseCopyData]
    ELSE [cfg EXCEPT !.phase = EncryptionPhaseDone]

ShEncryptDeviceCommit(p) ==
    /\ pc[p] = "sh_encrypted"
    /\ ongoing_item_config' =
           ShAdvanceConfig(ongoing_item_config, EncryptionPhaseEncryptDevice)
    /\ SetLocals(p, [loc[p] EXCEPT !.current_phase = EncryptionPhaseCopyData])
    /\ Goto(p, "sh_loop")
    /\ UNCHANGED <<crypt_items, encryption_marker, decryption_marker,
                   encryption_config, bek_passphrase, header_slice_file,
                   environment, lock, status, handler, faults>>

\* phase CopyData: luks_open unless the mapper device already exists
ShLuksOpen(p) ==
    /\ pc[p] = "sh_loop"
    /\ loc[p].current_phase = EncryptionPhaseCopyData
    /\ IF loc[p].mapper_name \in mapper_open
       THEN /\ Goto(p, "sh_opened")
            /\ UNCHANGED <<ongoing_item_config, mapper_open, loc, faults>>
       ELSE \E ok \in Outcomes :
            /\ Count(ok)
            /\ IF ok
               THEN /\ mapper_open' = mapper_open \cup {loc[p].mapper_name}
                    /\ SetLocals(p, [loc[p] EXCEPT !.prims = @ \cup {"luks_open"}])
                    /\ Goto(p, "sh_opened")
                    /\ UNCHANGED ongoing_item_config
               ELSE /\ ongoing_item_config' = ShFailedConfig(ongoing_item_config)
                    /\ Return(p, loc[p].current_phase, TRUE, {"luks_open"})
                    /\ UNCHANGED mapper_open
    /\ UNCHANGED <<crypt_items, encryption_marker, decryption_marker,
                   encryption_config, bek_passphrase, header_slice_file,
                   file_system, os_state, os_supported, lock, status, handler>>

\* the copy leaves room for a header and runs from the start
ShCopyDataInPlace(cfg, m) ==
    [cfg EXCEPT
        !.current_source_path = cfg.original_dev_path,
        !.current_destination = MapperPath(m),
        !.current_total_copy_size = cfg.device_size - luks_header_size,
        !.from_end = FALSE]
\* the config committed before the data copy
ShCopyDataConfig(cfg, m) ==
    [cfg EXCEPT
        !.current_source_path = cfg.original_dev_path,
        !.current_destination = MapperPath(m),
        !.current_total_copy_size = cfg.device_size,
        !.from_end = TRUE]

ShCopyData(p) ==
    /\ pc[p] = "sh_opened"
    /\ ongoing_item_config' =
           ShCopyDataConfig(ongoing_item_config, loc[p].mapper_name)
    /\ Goto(p, "sh_data_copy")
    /\ UNCHANGED <<crypt_items, encryption_marker, decryption_marker,
                   encryption_config, bek_passphrase, header_slice_file,
                   environment, lock, loc, status, handler, faults>>

ShCopyDataCopy(p) ==
    /\ pc[p] = "sh_data_copy"
    /\ \/ CopySlice(p)
       \/ /\ CopyError(p)
          /\ ongoing_item_config' = ShFailedConfig(ongoing_item_config)
          /\ Return(p, loc[p].current_phase, TRUE, {"copy"})
       \/ /\ CopyFinished(ongoing_item_config)
          /\ Goto(p, "sh_add")
          /\ UNCHANGED <<ongoing_item_config, loc, faults>>
    /\ UNCHANGED <<crypt_items, encryption_marker, decryption_marker,
                   encryption_config, bek_passphrase, header_slice_file,
                   environment, lock, status, handler>>

\* the copy succeeded: mount, register the CryptItem with its header path,
\* remove the stale fstab entry
ShAdd(p) ==
    /\ pc[p] = "sh_add"
    /\ \E ok \in Outcomes :
        /\ Count(ok)
        /\ crypt_items' =
               IF ok
               THEN add_crypt_item(crypt_items,
                        NewCryptItem(ongoing_item_config, loc[p].mapper_name,
                                     ongoing_item_config.luks_header_file_path))
               ELSE crypt_items
        /\ SetLocals(p, [loc[p] EXCEPT
               !.prims = @ \cup {"add_crypt_item"} \cup
                   MountPrims(ongoing_item_config, "mount_filesystem") \cup
                   MountPrims(ongoing_item_config, "remove_mount_info"),
               !.failed = @ \/ ~ok])
    /\ Goto(p, "sh_done")
    /\ UNCHANGED <<ongoing_item_config, encryption_marker, decryption_marker,
                   encryption_config, bek_passphrase, header_slice_file,
                   environment, lock, status, handler>>

\* phase Done is committed
ShDone(p) ==
    /\ pc[p] = "sh_done"
    /\ ongoing_item_config' =
           ShAdvanceConfig(ongoing_item_config, EncryptionPhaseCopyData)
    /\ SetLocals(p, [loc[p] EXCEPT !.current_phase = EncryptionPhaseDone])
    /\ Goto(p, "sh_clear")
    /\ UNCHANGED <<crypt_items, encryption_marker, decryption_marker,
                   encryption_config, bek_passphrase, header_slice_file,
                   environment, lock, status, handler, faults>>

\* clear_config, return Done
ShClear(p) ==
    /\ pc[p] = "sh_clear"
    /\ ongoing_item_config' = NoOngoingItemConfig
    /\ Return(p, loc[p].current_phase, FALSE, {})
    /\ UNCHANGED <<crypt_items, encryption_marker, decryption_marker,
                   encryption_config, bek_passphrase, header_slice_file,
                   environment, lock, status, handler, faults>>

\* the value the function returns when its loop is not entered
ShLoopNotEntered(phase) == PyNone

ShResumedDone(p) ==
    /\ pc[p] = "sh_loop"
    /\ loc[p].current_phase = EncryptionPhaseDone
    /\ Return(p, ShLoopNotEntered(loc[p].current_phase), FALSE, {})
    /\ UNCHANGED <<persisted, environment, lock, status, handler, faults>>

encrypt_inplace_with_separate_header_file(p) ==
    \/ ShFresh(p)
    \/ ShEncryptDevice(p)
    \/ ShEncryptDeviceCommit(p)
    \/ ShLuksOpen(p)
    \/ ShCopyData(p)
    \/ ShCopyDataCopy(p)
    \/ ShAdd(p)
    \/ ShDone(p)
    \/ ShClear(p)
    \/ ShResumedDone(p)

(***************************************************************************)
(* decrypt_inplace_copy_data and its two callers                            *)
(***************************************************************************)
\* the copy is set up from the raw device into the mapper
DecFreshConfigSwapped(crypt_item, mapper_size) ==
    [NoOngoingItemConfig EXCEPT
        !.exists = TRUE,
        !.current_destination = MapperPath(crypt_item.mapper_name),
        !.current_source_path = crypt_item.dev_path,
        !.current_total_copy_size = mapper_size,
        !.from_end = TRUE,
        !.phase = DecryptionPhaseCopyData,
        !.current_slice_index = 0,
        !.current_block_size = default_block_size,
        !.mount_point = crypt_item.mount_point]
\* the OnGoingItemConfig a fresh decryption of crypt_item commits
DecFreshConfig(crypt_item, mapper_size) ==
    [NoOngoingItemConfig EXCEPT
        !.exists = TRUE,
        !.current_destination = crypt_item.dev_path,
        !.current_source_path = MapperPath(crypt_item.mapper_name),
        !.current_total_copy_size = mapper_size,
        !.from_end = TRUE,
        !.phase = DecryptionPhaseCopyData,
        !.current_slice_index = 0,
        !.current_block_size = default_block_size,
        !.mount_point = crypt_item.mount_point]

DecFresh(p) ==
    /\ pc[p] = "dec_fresh"
    /\ ongoing_item_config' =
           DecFreshConfig(loc[p].crypt_item, loc[p].mapper_size)
    /\ SetLocals(p, [loc[p] EXCEPT
           !.machine = "dec", !.current_phase = DecryptionPhaseCopyData,
           !.ret = "", !.failed = FALSE, !.prims = {}])
    /\ Goto(p, "dec_copy")
    /\ UNCHANGED <<crypt_items, encryption_marker, decryption_marker,
                   encryption_config, bek_passphrase, header_slice_file,
                   environment, lock, status, handler, faults>>

\* what a failed copy leaves of the config
DecFailedConfig(cfg) == cfg

\* the fstab entry is restored whatever mount point was recorded
RestoreAlways(cfg) == {"restore_mount_info"}
\* restore_mount_info is called only for a recorded mount point that is not
\* the sentinel
RestorePrims(cfg) ==
    IF cfg.mount_point # "" /\ cfg.mount_point # MountSentinel
    THEN {"restore_mount_info"}
    ELSE {}

\* the copy from the mapper device back to the raw device; on success the
\* fstab entry is restored and phase Done committed
DecCopy(p) ==
    /\ pc[p] = "dec_copy"
    /\ \/ CopySlice(p)
       \/ /\ CopyError(p)
          /\ ongoing_item_config' = DecFailedConfig(ongoing_item_config)
          /\ Return(p, loc[p].current_phase, TRUE, {"copy"})
       \/ /\ CopyFinished(ongoing_item_config)
          /\ ongoing_item_config' =
                 [ongoing_item_config EXCEPT !.phase = DecryptionPhaseDone]
          /\ SetLocals(p, [loc[p] EXCEPT
                 !.current_phase = DecryptionPhaseDone,
                 !.prims = @ \cup RestorePrims(ongoing_item_config)])
          /\ Goto(p, "dec_clear")
          /\ UNCHANGED faults
    /\ UNCHANGED <<crypt_items, encryption_marker, decryption_marker,
                   encryption_config, bek_passphrase, header_slice_file,
                   environment, lock, status, handler>>

\* the loop is left: clear_config, return Done
DecClear(p) ==
    /\ pc[p] = "dec_clear"
    /\ ongoing_item_config' = NoOngoingItemConfig
    /\ Return(p, loc[p].current_phase, FALSE, {})
    /\ UNCHANGED <<crypt_items, encryption_marker, decryption_marker,
                   encryption_config, bek_passphrase, header_slice_file,
                   environment, lock, status, handler, faults>>

decrypt_inplace_copy_data(p) ==
    \/ DecFresh(p)
    \/ DecCopy(p)
    \/ DecClear(p)

\* the size check of the variant without separate header accepts any sizes
WithoutHeaderNeverMismatch(raw_size, mapper_size, header_size) == FALSE
\* decrypt_inplace_without_separate_header_file: the raw device must be
\* larger than the mapper device by exactly the LUKS header (payload offset)
WithoutHeaderSizeMismatch(raw_size, mapper_size, header_size) ==
    raw_size - mapper_size # header_size
\* decrypt_inplace_with_separate_header_file
WithHeaderSizeMismatch(raw_size, mapper_size) ==
    raw_size # mapper_size

(***************************************************************************)
(* Selection and stamping                                                   *)
(***************************************************************************)
\* DiskUtil.should_skip_for_inplace_encryption: a device that is already
\* registered is not selected again
should_skip_for_inplace_encryption(d, volume_type) ==
    \E i \in DOMAIN crypt_items : crypt_items[i].dev_path[2] = d

\* disk_util.get_block_device_to_azure_udev_table(): the device paths that
\* have an Azure udev alias
dev_path_reference_table == {DevPath("sdc"), DevPath("sdd"), DevPath("sde")}
\* the passphrase disk is selected like any other
is_passphrase_device_never(device_item) == FALSE
\* the device is the one that holds the passphrase
is_passphrase_device(device_item) == device_item = passphrase_device
\* the two exclusions of format-all: not mounted, no Azure udev alias
format_all_excludes(device_item, marker) ==
    /\ marker.command = EnableEncryptionFormatAll
    /\ \/ DeviceMountPoint[device_item] = ""
       \/ DevPath(device_item) \notin dev_path_reference_table

RECURSIVE find_devices(_, _, _)
find_devices(device_items, device_items_to_encrypt, marker) ==
    IF device_items = <<>> THEN device_items_to_encrypt
    ELSE LET device_item == Head(device_items)
             rest == Tail(device_items)
         IN  IF \E i \in DOMAIN device_items_to_encrypt :
                    device_items_to_encrypt[i] = device_item
             THEN find_devices(rest, device_items_to_encrypt, marker)
             ELSE IF should_skip_for_inplace_encryption(device_item,
                                                        marker.volume_type)
             THEN find_devices(rest, device_items_to_encrypt, marker)
             ELSE IF is_passphrase_device(device_item)
             THEN find_devices(rest, device_items_to_encrypt, marker)
             ELSE IF format_all_excludes(device_item, marker)
             THEN find_devices(rest, device_items_to_encrypt, marker)
             ELSE find_devices(rest,
                               Append(device_items_to_encrypt, device_item),
                               marker)
\* disk_util.get_device_items(None): the attached data disks
get_device_items ==
    SelectSeq(DeviceNames, LAMBDA d : d \in DOMAIN file_system)
find_all_devices_to_encrypt(marker) ==
    find_devices(get_device_items, <<>>, marker)

are_disks_stamped_with_current_config ==
    encryption_config.secret_seq_num = cur_seq

\* the stamping commits nothing
StampedConfigStale(cfg) == cfg
\* stamp_disks_with_settings: the EncryptionConfig it commits
StampedConfig(cfg) ==
    [cfg EXCEPT !.exists = TRUE,
                !.volume_type = settings.volume_type,
                !.secret_seq_num = cur_seq]

(***************************************************************************)
(* daemon                                                                   *)
(***************************************************************************)
\* the daemon leaves with status st; its finally block is still to run
Exit(p, st) ==
    /\ status' = [status EXCEPT ![p] = st]
    /\ Goto(p, "release")

\* ProcessLock.try_lock: succeeds when no process holds the lock
try_lock(p) == lock = NoProc

\* the daemon goes on whatever try_lock returned
AfterTryLockProceeds(acquired) == "locked"
\* where daemon() goes after try_lock: on, or out when the lock is held
AfterTryLock(acquired) == IF acquired THEN "locked" ELSE "refused"

\* a daemon process is started and takes the lock, or finds it held and
\* returns
DaemonLock(p) ==
    /\ pc[p] = "idle"
    /\ lock' = IF try_lock(p) THEN p ELSE lock
    /\ Goto(p, AfterTryLock(try_lock(p)))
    /\ status' = IF AfterTryLock(try_lock(p)) = "refused"
                 THEN [status EXCEPT ![p] = "refused"]
                 ELSE status
    /\ UNCHANGED <<persisted, environment, loc, handler, faults>>

\* the daemon encrypts whether or not decryption is marked
DaemonBranchEncrypts(decryption_marked) == "encrypt"
\* the branch daemon() takes once it holds the lock: daemon_decrypt when the
\* decryption mark exists, otherwise daemon_encrypt
DaemonBranch(decryption_marked) ==
    IF decryption_marked THEN "decrypt" ELSE "encrypt"

\* the refused daemon process ends
DaemonRefused(p) ==
    /\ pc[p] = "refused"
    /\ Goto(p, "idle")
    /\ status' = [status EXCEPT ![p] = "none"]
    /\ UNCHANGED <<persisted, environment, lock, loc, handler, faults>>

\* ProcessLock.release_lock: the lock of the calling process is given up
release_lock(p, holder) == IF holder = p THEN NoProc ELSE holder
\* the daemon ends without releasing
DaemonFinallyKeeps(p, holder) == holder
\* what the finally blocks of daemon() do to the lock
DaemonFinally(p, holder) == release_lock(p, holder)

\* the finally block of daemon(): release_lock; the process ends
DaemonRelease(p) ==
    /\ pc[p] = "release"
    /\ lock' = DaemonFinally(p, lock)
    /\ Goto(p, "idle")
    /\ SetLocals(p, NoLocals)
    /\ status' = [status EXCEPT ![p] = "none"]
    /\ UNCHANGED <<persisted, environment, handler, faults>>

(***************************************************************************)
(* daemon_decrypt and disable_encryption_all_in_place                       *)
(***************************************************************************)
\* up to the branch on the OnGoingItemConfig: the mappers of the registered
\* items are opened; with an OnGoingItemConfig present the function only logs
DaemonDecrypt(p) ==
    /\ pc[p] = "locked"
    /\ DaemonBranch(decryption_marker.exists) = "decrypt"
    /\ \E ok \in Outcomes :
        /\ Count(ok)
        /\ mapper_open' = IF ok THEN mapper_open \cup RegisteredNames
                          ELSE mapper_open
    /\ IF ongoing_item_config.exists
       THEN /\ Exit(p, "returned")
            /\ UNCHANGED loc
       ELSE /\ SetLocals(p, [loc[p] EXCEPT
                   !.todo_items = get_crypt_items(crypt_items)])
            /\ Goto(p, "disable_loop")
            /\ UNCHANGED status
    /\ UNCHANGED <<persisted, file_system, os_state, os_supported, lock,
                   handler>>

\* the size lsblk reports for the mapper device of a crypt item
PayloadSize(item) ==
    IF none_or_empty(item.luks_header_path)
    THEN DeviceSize[item.dev_path[2]] - luks_header_size
    ELSE DeviceSize[item.dev_path[2]]
\* the size it reports when the registry entry does not match the disk
MismatchedSize(item) ==
    IF none_or_empty(item.luks_header_path)
    THEN DeviceSize[item.dev_path[2]]
    ELSE DeviceSize[item.dev_path[2]] - luks_header_size

\* whether the size check of the decrypt variant chosen for the item fails
DecryptSizeMismatch(item, raw_size, mapper_size) ==
    IF ~none_or_empty(item.luks_header_path)
    THEN WithHeaderSizeMismatch(raw_size, mapper_size)
    ELSE WithoutHeaderSizeMismatch(raw_size, mapper_size, luks_header_size)

\* a failed item clears the decryption mark
FailedItemClearsMark(marker) == NoMark
\* what daemon_decrypt leaves of the decryption mark when
\* disable_encryption_all_in_place returned a failed item
FailedItemMark(marker) == marker

\* one round of the loop of disable_encryption_all_in_place, up to the call
\* of decrypt_inplace_copy_data
DisableLoop(p) ==
    /\ pc[p] = "disable_loop"
    /\ IF loc[p].todo_items = <<>>
       THEN /\ Goto(p, "decrypt_succeeded")
            /\ UNCHANGED <<loc, status, faults>>
       ELSE LET item == Head(loc[p].todo_items) IN
            IF item.mapper_name \notin mapper_open
            THEN /\ SetLocals(p, [loc[p] EXCEPT
                        !.crypt_item = item, !.mapper_size = 0,
                        !.machine = "", !.ret = "", !.prims = {}])
                 /\ Exit(p, "error")
                 /\ UNCHANGED faults
            ELSE \E sane \in Outcomes :
                 LET mapper_size == IF sane THEN PayloadSize(item)
                                    ELSE MismatchedSize(item)
                 IN  /\ Count(sane)
                     /\ SetLocals(p, [loc[p] EXCEPT
                            !.crypt_item = item, !.mapper_size = mapper_size,
                            !.machine = "dec", !.ret = PyNone, !.prims = {},
                            !.failed = FALSE])
                     /\ IF DecryptSizeMismatch(item,
                               DeviceSize[item.dev_path[2]], mapper_size)
                        THEN Exit(p, "error")
                        ELSE Goto(p, "dec_fresh") /\ UNCHANGED status
    /\ decryption_marker' = IF pc'[p] = "release"
                            THEN FailedItemMark(decryption_marker)
                            ELSE decryption_marker
    /\ UNCHANGED <<ongoing_item_config, crypt_items, encryption_marker,
                   encryption_config, bek_passphrase, header_slice_file,
                   environment, lock, handler>>

\* the item is closed and removed whatever the decryption returned
DisableRemovesAlways(ret) == TRUE
\* whether the loop closes the mapper and removes the crypt item
DisableRemoves(ret) == ret = DecryptionPhaseDone

\* decrypt_inplace_copy_data returned
DisableReturned(p) ==
    /\ pc[p] = "machine_returned"
    /\ loc[p].machine = "dec"
    /\ IF DisableRemoves(loc[p].ret)
       THEN /\ mapper_open' = mapper_open \ {loc[p].crypt_item.mapper_name}
            /\ crypt_items' = remove_crypt_item(crypt_items, loc[p].crypt_item)
            /\ SetLocals(p, [loc[p] EXCEPT !.todo_items = Tail(@)])
            /\ Goto(p, "disable_loop")
            /\ UNCHANGED status
       ELSE /\ Exit(p, "error")
            /\ UNCHANGED <<mapper_open, crypt_items, loc>>
    /\ decryption_marker' = IF pc'[p] = "release"
                            THEN FailedItemMark(decryption_marker)
                            ELSE decryption_marker
    /\ UNCHANGED <<ongoing_item_config, encryption_marker,
                   encryption_config, bek_passphrase, header_slice_file,
                   file_system, os_state, os_supported, lock, handler, faults>>

\* no failed item: the EncryptionConfig is cleared
DecryptClearConfig(p) ==
    /\ pc[p] = "decrypt_succeeded"
    /\ encryption_config' = NoEncryptionConfig
    /\ Goto(p, "decrypt_clear_mark")
    /\ UNCHANGED <<ongoing_item_config, crypt_items, encryption_marker,
                   decryption_marker, bek_passphrase, header_slice_file,
                   environment, lock, loc, status, handler, faults>>

\* then the decryption mark
DecryptClearMark(p) ==
    /\ pc[p] = "decrypt_clear_mark"
    /\ decryption_marker' = NoMark
    /\ Exit(p, "success")
    /\ UNCHANGED <<ongoing_item_config, crypt_items, encryption_marker,
                   encryption_config, bek_passphrase, header_slice_file,
                   environment, lock, loc, handler, faults>>

daemon_decrypt(p) ==
    \/ DaemonDecrypt(p)
    \/ DisableLoop(p)
    \/ DisableReturned(p)
    \/ DecryptClearConfig(p)
    \/ DecryptClearMark(p)

(***************************************************************************)
(* daemon_encrypt, daemon_encrypt_data_volumes, enable_encryption_all_in_place *)
(***************************************************************************)
\* where daemon_encrypt goes once the data volumes are done
AfterDataVolumes ==
    IF encryption_config.volume_type \in {VolumeTypeOS, VolumeTypeAll}
    THEN "os_volume"
    ELSE "encrypt_returned"

\* without a decryption mark the daemon encrypts: daemon_encrypt up to the
\* loop over daemon_encrypt_data_volumes
DaemonEncrypt(p) ==
    /\ pc[p] = "locked"
    /\ DaemonBranch(decryption_marker.exists) = "encrypt"
    /\ IF ~(encryption_config.exists /\ bek_passphrase)
       THEN /\ Exit(p, "error")
            /\ UNCHANGED loc
       ELSE /\ SetLocals(p, [loc[p] EXCEPT !.os_items_to_stamp =
                   /\ encryption_config.volume_type \in {VolumeTypeAll, VolumeTypeOS}
                   /\ ~are_disks_stamped_with_current_config])
            /\ IF encryption_config.volume_type \in {VolumeTypeData, VolumeTypeAll}
               THEN Goto(p, "data_volumes")
               ELSE Goto(p, "os_volume")
            /\ UNCHANGED status
    /\ UNCHANGED <<persisted, environment, lock, handler, faults>>

\* the disk format queries of the settings: one that json.loads rejects,
\* and one that names the second data disk
UnparsableQuery == "{"
DiskFormatQueries == {UnparsableQuery, "[{dev_path: /dev/sdd}]"}
json_parses(disk_format_query) == disk_format_query = "[{dev_path: /dev/sdd}]"
\* json.loads: the devices the items of the query name
json_loads(disk_format_query) ==
    IF disk_format_query = "[{dev_path: /dev/sdd}]" THEN <<"sdd">> ELSE <<>>
\* the mark after the disk format query failed to parse: it is cleared
\* before the exception is passed on
UnparsableQueryMark(marker) == NoMark
\* enable_encryption_format: the devices of the query that exist and have
\* no file system
format_devices_to_encrypt(encryption_format_items) ==
    SelectSeq(encryption_format_items,
              LAMBDA d : d \in DOMAIN file_system /\ file_system[d] = "")

\* a dispatch on the mapper name instead of the header file path
ResumeMachineByName(cfg) ==
    IF cfg.mapper_name = "" THEN "wo" ELSE "sh"
\* which machine resumes a persisted OnGoingItemConfig
ResumeMachine(cfg) ==
    IF none_or_empty(cfg.luks_header_file_path) THEN "wo" ELSE "sh"

\* daemon_encrypt_data_volumes up to the first machine call: resume a
\* persisted OnGoingItemConfig, or return True without a mark, or select the
\* devices, stamp and enter the bulk loop
DataVolumes(p) ==
    /\ pc[p] = "data_volumes"
    /\ IF ongoing_item_config.exists
       THEN /\ SetLocals(p, [loc[p] EXCEPT
                   !.machine = ResumeMachine(ongoing_item_config),
                   !.resumed = TRUE,
                   !.invocations = @ + 1,
                   !.umounted =
                       IF ongoing_item_config.mount_point = ""
                       THEN {}
                       ELSE {ongoing_item_config.mount_point},
                   !.mapper_name = ongoing_item_config.mapper_name,
                   !.current_phase = ongoing_item_config.phase,
                   !.ret = "", !.failed = FALSE, !.prims = {}])
            /\ IF ResumeMachine(ongoing_item_config) = "wo"
               THEN Goto(p, "wo_loop")
               ELSE Goto(p, "sh_loop")
            /\ UNCHANGED <<encryption_config, encryption_marker, status,
                           faults>>
       ELSE IF ~encryption_marker.exists
       THEN /\ SetLocals(p, [loc[p] EXCEPT !.invocations = @ + 1])
            /\ Goto(p, AfterDataVolumes)
            /\ UNCHANGED <<encryption_config, encryption_marker, status,
                           faults>>
       ELSE IF /\ encryption_marker.command = EnableEncryptionFormat
               /\ ~json_parses(encryption_marker.disk_format_query)
       THEN /\ encryption_marker' = UnparsableQueryMark(encryption_marker)
            /\ SetLocals(p, [loc[p] EXCEPT !.invocations = @ + 1])
            /\ Exit(p, "error")
            /\ UNCHANGED <<encryption_config, faults>>
       ELSE LET format == encryption_marker.command = EnableEncryptionFormat
                device_items_to_encrypt ==
                    IF format
                    THEN format_devices_to_encrypt(
                             json_loads(encryption_marker.disk_format_query))
                    ELSE find_all_devices_to_encrypt(encryption_marker)
                loop == IF format THEN "format_loop" ELSE "bulk_loop"
            IN  /\ UNCHANGED encryption_marker
                /\ IF device_items_to_encrypt = <<>>
                      /\ ~loc[p].os_items_to_stamp
                   THEN /\ SetLocals(p, [loc[p] EXCEPT
                               !.todo_devices = device_items_to_encrypt,
                               !.resumed = FALSE,
                               !.invocations = @ + 1])
                        /\ Goto(p, loop)
                        /\ UNCHANGED <<encryption_config, status, faults>>
                   ELSE \E ok \in Outcomes :
                        /\ Count(ok)
                        /\ IF ok
                           THEN /\ encryption_config' =
                                      StampedConfig(encryption_config)
                                /\ SetLocals(p, [loc[p] EXCEPT
                                       !.todo_devices = device_items_to_encrypt,
                                       !.resumed = FALSE,
                                       !.invocations = @ + 1])
                                /\ Goto(p, loop)
                                /\ UNCHANGED status
                           ELSE /\ SetLocals(p, [loc[p] EXCEPT
                                       !.invocations = @ + 1])
                                /\ Exit(p, "error")
                                /\ UNCHANGED encryption_config
    /\ UNCHANGED <<ongoing_item_config, crypt_items, decryption_marker,
                   bek_passphrase, header_slice_file, environment, lock,
                   handler>>

\* one round of the loop of enable_encryption_all_in_place: unmount, then
\* the fresh call of the machine; a failed unmount is logged and the device
\* passed over
BulkLoop(p) ==
    /\ pc[p] = "bulk_loop"
    /\ IF loc[p].todo_devices = <<>>
       THEN /\ Goto(p, AfterDataVolumes)
            /\ UNCHANGED <<loc, faults>>
       ELSE LET device_item == Head(loc[p].todo_devices) IN
            IF DeviceMountPoint[device_item] # ""
            THEN \E ok \in Outcomes :
                 /\ Count(ok)
                 /\ IF ok
                    THEN /\ SetLocals(p, [loc[p] EXCEPT !.dev = device_item])
                         /\ Goto(p, "wo_fresh")
                    ELSE /\ SetLocals(p, [loc[p] EXCEPT !.todo_devices = Tail(@)])
                         /\ UNCHANGED pc
            ELSE /\ SetLocals(p, [loc[p] EXCEPT !.dev = device_item])
                 /\ Goto(p, "wo_fresh")
                 /\ UNCHANGED faults
    /\ UNCHANGED <<persisted, environment, lock, status, handler>>

\* the CryptItem enable_encryption_format registers
FormatCryptItem(d, m) ==
    [mapper_name |-> m,
     dev_path |-> DevPath(d),
     luks_header_path |-> HeaderSentinel,
     file_system |-> default_file_system,
     mount_point |-> "/mnt/" \o m,
     uses_cleartext_key |-> FALSE,
     current_luks_slot |-> 0]

\* one round of the loop of enable_encryption_format up to encrypt_disk:
\* the device gets a new mapper name and a LUKS header; a failure returns
\* the device as the failed item
FormatLoop(p) ==
    /\ pc[p] = "format_loop"
    /\ IF loc[p].todo_devices = <<>>
       THEN /\ Goto(p, AfterDataVolumes)
            /\ UNCHANGED <<mapper_open, file_system, loc, status, faults>>
       ELSE LET device_item == Head(loc[p].todo_devices) IN
            /\ uuid4 # ""
            /\ \E ok \in Outcomes :
                /\ Count(ok)
                /\ SetLocals(p, [loc[p] EXCEPT
                       !.dev = device_item, !.mapper_name = uuid4,
                       !.machine = "format", !.failed = ~ok,
                       !.prims = {"encrypt_disk"}])
                /\ IF ok
                   THEN /\ mapper_open' = mapper_open \cup {uuid4}
                        /\ file_system' =
                               [file_system EXCEPT ![device_item] = "crypto_LUKS"]
                        /\ Goto(p, "format_encrypted")
                        /\ UNCHANGED status
                   ELSE /\ Exit(p, "error")
                        /\ UNCHANGED <<mapper_open, file_system>>
    /\ UNCHANGED <<persisted, os_state, os_supported, lock, handler>>

\* format_disk on the mapper device, then the CryptItem is registered (a
\* rejected add is only logged); a failed format returns the device
FormatAdd(p) ==
    /\ pc[p] = "format_encrypted"
    /\ \E ok \in Outcomes :
        /\ Count(ok)
        /\ IF ok
           THEN /\ crypt_items' =
                      add_crypt_item(crypt_items,
                          FormatCryptItem(loc[p].dev, loc[p].mapper_name))
                /\ SetLocals(p, [loc[p] EXCEPT
                       !.todo_devices = Tail(@), !.mapper_name = "",
                       !.dev = "",
                       !.prims = @ \cup {"format_disk", "add_crypt_item"}])
                /\ Goto(p, "format_loop")
                /\ UNCHANGED status
           ELSE /\ SetLocals(p, [loc[p] EXCEPT
                       !.failed = TRUE, !.prims = @ \cup {"format_disk"}])
                /\ Exit(p, "error")
                /\ UNCHANGED crypt_items
    /\ UNCHANGED <<ongoing_item_config, encryption_marker, decryption_marker,
                   encryption_config, bek_passphrase, header_slice_file,
                   environment, lock, handler>>

\* the bulk loop goes on after a failed device
BulkNeverHalts(ret) == FALSE
\* whether the bulk loop stops at a device whose machine returned ret
BulkHalts(ret) == ret # EncryptionPhaseDone

\* the machine returned to enable_encryption_all_in_place
BulkReturned(p) ==
    /\ pc[p] = "machine_returned"
    /\ loc[p].machine \in {"wo", "sh"}
    /\ ~loc[p].resumed
    /\ IF BulkHalts(loc[p].ret)
       THEN /\ Exit(p, "error")
            /\ UNCHANGED loc
       ELSE /\ SetLocals(p, [loc[p] EXCEPT
                   !.todo_devices = Tail(@), !.mapper_name = "", !.dev = ""])
            /\ Goto(p, "bulk_loop")
            /\ UNCHANGED status
    /\ UNCHANGED <<persisted, environment, lock, handler, faults>>

\* a resume branch that returns a false value whatever the machine
\* returned, with the config left as it is
ResumeRetries(ret, cfg) == [raises |-> FALSE, cfg |-> cfg]
\* the end of the resume branch: anything but Done raises, with the config
\* as the machine left it; after Done ongoing_item_config.clear_config()
ResumeOutcome(ret, cfg) ==
    IF ret # EncryptionPhaseDone
    THEN [raises |-> TRUE, cfg |-> cfg]
    ELSE [raises |-> FALSE, cfg |-> NoOngoingItemConfig]
\* the machine returned to the resume branch of daemon_encrypt_data_volumes:
\* anything but Done raises; after Done the config is cleared, the function
\* returns None and daemon_encrypt calls it again
ResumeReturned(p) ==
    /\ pc[p] = "machine_returned"
    /\ loc[p].machine \in {"wo", "sh"}
    /\ loc[p].resumed
    /\ ongoing_item_config' =
           ResumeOutcome(loc[p].ret, ongoing_item_config).cfg
    /\ IF ResumeOutcome(loc[p].ret, ongoing_item_config).raises
       THEN /\ Exit(p, "error")
            /\ UNCHANGED loc
       ELSE /\ SetLocals(p, [loc[p] EXCEPT
                   !.resumed = FALSE, !.mapper_name = "", !.machine = "",
                   !.umounted = {}])
            /\ Goto(p, "data_volumes")
            /\ UNCHANGED status
    /\ UNCHANGED <<crypt_items, encryption_marker, decryption_marker,
                   encryption_config, bek_passphrase, header_slice_file,
                   environment, lock, handler, faults>>

\* the mark is cleared whether or not the OS volume reached completed
OsVolumeMarkCleared(marker, completed) == NoMark
\* the mark after os_encryption.start_encryption(): cleared when the state
\* machine reached completed, left when it did not
OsVolumeMark(marker, completed) == IF completed THEN NoMark ELSE marker

\* the OS-volume part: an unsupported distro exits; otherwise stamp if
\* needed, run the OS state machine, and clear the mark when it completed
OsVolume(p) ==
    /\ pc[p] = "os_volume"
    /\ IF ~os_supported
       THEN /\ Exit(p, "error")
            /\ UNCHANGED <<encryption_config, encryption_marker, os_state, faults>>
       ELSE \E ok \in Outcomes :
            /\ Count(ok)
            /\ IF ok
               THEN /\ encryption_config' =
                          IF os_state = "uninitialized"
                             /\ ~are_disks_stamped_with_current_config
                          THEN StampedConfig(encryption_config)
                          ELSE encryption_config
                    /\ os_state' = "completed"
                    /\ encryption_marker' = OsVolumeMark(encryption_marker, TRUE)
                    /\ Goto(p, "encrypt_returned")
                    /\ UNCHANGED status
               ELSE /\ encryption_marker' = OsVolumeMark(encryption_marker, FALSE)
                    /\ Exit(p, "error")
                    /\ UNCHANGED <<encryption_config, os_state>>
    /\ UNCHANGED <<ongoing_item_config, crypt_items, decryption_marker,
                   bek_passphrase, header_slice_file, mapper_open, file_system,
                   os_supported, lock, loc, handler>>

\* daemon_encrypt returned without an exception: the mark is cleared
EncryptReturned(p) ==
    /\ pc[p] = "encrypt_returned"
    /\ encryption_marker' = NoMark
    /\ Exit(p, "success")
    /\ UNCHANGED <<ongoing_item_config, crypt_items, decryption_marker,
                   encryption_config, bek_passphrase, header_slice_file,
                   environment, lock, loc, handler, faults>>

daemon_encrypt(p) ==
    \/ DaemonEncrypt(p)
    \/ DataVolumes(p)
    \/ BulkLoop(p)
    \/ BulkReturned(p)
    \/ FormatLoop(p)
    \/ FormatAdd(p)
    \/ ResumeReturned(p)
    \/ OsVolume(p)
    \/ EncryptReturned(p)

daemon(p) ==
    \/ DaemonLock(p)
    \/ DaemonRefused(p)
    \/ DaemonRelease(p)

(***************************************************************************)
(* The handler: the agent delivers settings with a sequence number and      *)
(* runs enable(), which dispatches on the requested operation.  The agent   *)
(* runs the handler between two daemon runs.                                *)
(***************************************************************************)
\* the settings the agent can deliver
SettingsChoices ==
    {[operation |-> EnableEncryption, volume_type |-> VolumeTypeData,
      disk_format_query |-> ""],
     [operation |-> EnableEncryption, volume_type |-> VolumeTypeAll,
      disk_format_query |-> ""],
     [operation |-> DisableEncryption, volume_type |-> VolumeTypeData,
      disk_format_query |-> ""]}

\* the agent writes the next settings file, between two daemon runs
NewSettings ==
    /\ cur_seq < MaxSeq
    /\ lock = NoProc
    /\ cur_seq' = cur_seq + 1
    /\ settings' \in SettingsChoices
    /\ handler_exit' = "none"
    /\ UNCHANGED <<persisted, environment, processes, last_seq, passphrase,
                   keyslots, bek_file, bek_backup, faults>>

\* hutil.exit_if_same_seq: the operation was already run for this sequence
\* number
exit_if_same_seq == cur_seq = last_seq

mark_encryption(command, volume_type, disk_format_query) ==
    [exists |-> TRUE, command |-> command, volume_type |-> volume_type,
     disk_format_query |-> disk_format_query]

\* the operations enable() hands to enable_encryption
EnableCommands == {EnableEncryption, EnableEncryptionFormat}

\* the sequence number is not recorded
SavedSeqForgotten(last, current) == last
\* hutil.save_seq() right behind the gate: the sequence number on record
\* once the gate is passed
SavedSeq(last, current) == current

\* where a run of enable_encryption that passed the sequence gate is
\* killed: nowhere, right after hutil.save_seq(), or right after
\* encryption_config.commit()
KillPoints == IF CanFail THEN {"", "save_seq", "commit"} ELSE {""}

\* the handler ends without having changed any record
HandlerExits(how) ==
    /\ handler_exit' = how
    /\ UNCHANGED <<encryption_config, encryption_marker, bek_passphrase,
                   last_seq, faults>>

\* one pass of enable_encryption: mount what is registered; with a mark only
\* the daemon is started; otherwise pass the sequence gate, record the
\* sequence number, commit the EncryptionConfig, store a passphrase if
\* there is none (or start the daemon if there is one) and commit the mark
enable_encryption ==
    /\ lock = NoProc
    /\ settings.operation \in EnableCommands
    /\ IF bek_passphrase
       THEN mapper_open' = mapper_open \cup RegisteredNames
       ELSE UNCHANGED mapper_open
    /\ IF ~bek_passphrase /\ encryption_config.exists
       THEN HandlerExits("no_status")
       ELSE IF encryption_marker.exists
       THEN HandlerExits("start_daemon")
       ELSE IF exit_if_same_seq
       THEN HandlerExits("same_seq")
       ELSE \E killed \in KillPoints :
            /\ last_seq' = SavedSeq(last_seq, cur_seq)
            /\ Count(killed = "")
            /\ IF killed = "save_seq"
               THEN /\ handler_exit' = "killed"
                    /\ UNCHANGED <<encryption_config, encryption_marker,
                                   bek_passphrase>>
               ELSE IF killed = "commit"
               THEN /\ encryption_config' =
                          [encryption_config EXCEPT
                              !.exists = TRUE,
                              !.volume_type = settings.volume_type]
                    /\ handler_exit' = "killed"
                    /\ UNCHANGED <<encryption_marker, bek_passphrase>>
               ELSE /\ encryption_config' =
                          [encryption_config EXCEPT
                              !.exists = TRUE,
                              !.volume_type = settings.volume_type]
                    /\ bek_passphrase' = TRUE
                    /\ encryption_marker' =
                          mark_encryption(settings.operation,
                                          settings.volume_type,
                                          settings.disk_format_query)
                    /\ handler_exit' = IF bek_passphrase THEN "start_daemon"
                                       ELSE "returned"
    /\ UNCHANGED <<ongoing_item_config, crypt_items, decryption_marker,
                   header_slice_file, file_system, os_state, os_supported,
                   processes, cur_seq, settings, passphrase, keyslots,
                   bek_file, bek_backup>>

\* the reboot of the VM: every process dies, every mapper device is gone
Rebooted ==
    /\ mapper_open' = {}
    /\ lock' = NoProc
    /\ pc' = [p \in Procs |-> "idle"]
    /\ loc' = [p \in Procs |-> NoLocals]
    /\ status' = [p \in Procs |-> "none"]

\* the registry entry is written back as it was read
WithCleartextKeyUnflagged(item) == item
\* the registry entry of an item that got its cleartext key
WithCleartextKey(item) ==
    [item EXCEPT !.uses_cleartext_key = TRUE,
                 !.dev_path = IF @[1] = "/dev" THEN DevIdPath(@[2]) ELSE @]

\* how a run of disable_encryption that passed the sequence gate goes on
DisableOutcomes ==
    IF CanFail THEN {"ok", "luks_add_failed", "killed"} ELSE {"ok"}
\* how many items of the loop were updated when the run ended that way:
\* all of them, the ones before the item whose luksAdd failed, or the ones
\* before the kill
DisableUpdated(items, outcome) ==
    IF outcome = "ok" THEN {Len(items)}
    ELSE IF outcome = "luks_add_failed"
    THEN {k \in 0..Len(items) : k < Len(items) \/ k = 0}
    ELSE 0..Len(items)
\* the registry after the first k items got their cleartext key
CleartextPrefix(items, k) ==
    [i \in DOMAIN items |->
        IF i <= k THEN WithCleartextKey(items[i]) ELSE items[i]]

\* disable_encryption: with a decryption mark only the daemon is started;
\* otherwise pass the sequence gate, record the sequence number, refuse when
\* the OS volume is encrypted, add a cleartext key to every registered item,
\* commit the decryption mark and reboot
disable_encryption ==
    /\ lock = NoProc
    /\ settings.operation = DisableEncryption
    /\ IF decryption_marker.exists \/ exit_if_same_seq
       THEN /\ handler_exit' = IF decryption_marker.exists
                               THEN "start_daemon" ELSE "same_seq"
            /\ UNCHANGED <<crypt_items, decryption_marker, bek_passphrase,
                           mapper_open, processes, last_seq, faults>>
       ELSE /\ last_seq' = SavedSeq(last_seq, cur_seq)
            /\ IF os_state # "uninitialized"
               THEN /\ handler_exit' = "error"
                    /\ UNCHANGED <<crypt_items, decryption_marker,
                                   bek_passphrase, mapper_open, processes,
                                   faults>>
               ELSE \E outcome \in DisableOutcomes :
                    \E k \in DisableUpdated(crypt_items, outcome) :
                    /\ Count(outcome = "ok")
                    /\ crypt_items' = CleartextPrefix(crypt_items, k)
                    /\ IF outcome = "ok"
                       THEN /\ decryption_marker' =
                                  [exists |-> TRUE,
                                   command |-> settings.operation,
                                   volume_type |-> settings.volume_type,
                                   disk_format_query |-> ""]
                            /\ bek_passphrase' = TRUE
                            /\ handler_exit' = "reboot"
                            /\ Rebooted
                       ELSE /\ handler_exit' = IF outcome = "killed"
                                               THEN "killed" ELSE "error"
                            /\ UNCHANGED <<decryption_marker,
                                           bek_passphrase, mapper_open,
                                           processes>>
    /\ UNCHANGED <<ongoing_item_config, encryption_marker, encryption_config,
                   header_slice_file, file_system, os_state, os_supported,
                   cur_seq, settings, passphrase, keyslots, bek_file,
                   bek_backup>>

(***************************************************************************)
(* Interruptions                                                            *)
(***************************************************************************)
\* the daemon process that holds the lock is killed between two steps; its
\* lock goes with it
Crash(p) ==
    /\ lock = p
    /\ CanFail
    /\ faults' = faults + 1
    /\ lock' = NoProc
    /\ Goto(p, "idle")
    /\ SetLocals(p, NoLocals)
    /\ status' = [status EXCEPT ![p] = "none"]
    /\ UNCHANGED <<persisted, environment, handler>>

\* the VM reboots under a running daemon
Reboot ==
    /\ lock # NoProc
    /\ CanFail
    /\ faults' = faults + 1
    /\ Rebooted
    /\ UNCHANGED <<persisted, file_system, os_state, os_supported, handler>>

(***************************************************************************)
(* Specification                                                            *)
(***************************************************************************)
\* a VM on which the extension was just installed
InitInstalled ==
    /\ ongoing_item_config = NoOngoingItemConfig
    /\ crypt_items = <<>>
    /\ encryption_marker = NoMark
    /\ decryption_marker = NoMark
    /\ encryption_config = NoEncryptionConfig
    /\ bek_passphrase = FALSE
    /\ header_slice_file = FALSE
    /\ mapper_open = {}
    /\ file_system \in [Devices -> {"ext4", "xfs"}]
    /\ file_system["sdc"] = "ext4"
    /\ os_state = "uninitialized"
    /\ os_supported \in BOOLEAN
    /\ lock = NoProc
    /\ pc = [p \in Procs |-> "idle"]
    /\ loc = [p \in Procs |-> NoLocals]
    /\ status = [p \in Procs |-> "none"]
    /\ cur_seq = 0
    /\ last_seq = -1
    /\ settings = [operation |-> EnableEncryption,
                   volume_type |-> VolumeTypeData, disk_format_query |-> ""]
    /\ handler_exit = "none"
    /\ passphrase = ""
    /\ keyslots = <<>>
    /\ bek_file = ""
    /\ bek_backup = ""
    /\ faults = 0

\* encrypt_inplace_with_separate_header_file has no caller in handle.py
\* outside the resume branch: its fresh entry is an initial state, a daemon
\* holding the lock that has just called it for one data disk
InitSeparateHeader ==
    /\ ongoing_item_config = NoOngoingItemConfig
    /\ crypt_items = <<>>
    /\ encryption_marker = mark_encryption(EnableEncryption, VolumeTypeData, "")
    /\ decryption_marker = NoMark
    /\ encryption_config =
           [exists |-> TRUE, volume_type |-> VolumeTypeData, secret_seq_num |-> 0]
    /\ bek_passphrase = TRUE
    /\ header_slice_file = FALSE
    /\ mapper_open = {}
    /\ file_system = [d \in Devices |-> "ext4"]
    /\ os_state = "uninitialized"
    /\ os_supported = TRUE
    /\ lock = "daemon1"
    /\ \E d \in Devices :
          loc = [p \in Procs |->
                    IF p = "daemon1"
                    THEN [NoLocals EXCEPT !.dev = d, !.todo_devices = <<d>>]
                    ELSE NoLocals]
    /\ pc = [p \in Procs |-> IF p = "daemon1" THEN "sh_fresh" ELSE "idle"]
    /\ status = [p \in Procs |-> "none"]
    /\ cur_seq = 0
    /\ last_seq = 0
    /\ settings = [operation |-> EnableEncryption,
                   volume_type |-> VolumeTypeData, disk_format_query |-> ""]
    /\ handler_exit = "none"
    /\ passphrase = ""
    /\ keyslots = <<>>
    /\ bek_file = ""
    /\ bek_backup = ""
    /\ faults = 0

\* a VM whose second data disk has no file system, on which
\* enable_encryption has just marked EnableEncryptionFormat
InitFormat ==
    /\ ongoing_item_config = NoOngoingItemConfig
    /\ crypt_items = <<>>
    /\ \E q \in DiskFormatQueries :
          /\ encryption_marker =
                 mark_encryption(EnableEncryptionFormat, VolumeTypeData, q)
          /\ settings = [operation |-> EnableEncryptionFormat,
                         volume_type |-> VolumeTypeData,
                         disk_format_query |-> q]
    /\ decryption_marker = NoMark
    /\ encryption_config =
           [exists |-> TRUE, volume_type |-> VolumeTypeData,
            secret_seq_num |-> -1]
    /\ bek_passphrase = TRUE
    /\ header_slice_file = FALSE
    /\ mapper_open = {}
    /\ file_system = [d \in Devices |-> IF d = "sdd" THEN "" ELSE "ext4"]
    /\ os_state = "uninitialized"
    /\ os_supported = TRUE
    /\ lock = NoProc
    /\ pc = [p \in Procs |-> "idle"]
    /\ loc = [p \in Procs |-> NoLocals]
    /\ status = [p \in Procs |-> "none"]
    /\ cur_seq = 0
    /\ last_seq = 0
    /\ handler_exit = "returned"
    /\ passphrase = ""
    /\ keyslots = <<>>
    /\ bek_file = ""
    /\ bek_backup = ""
    /\ faults = 0

\* a VM with three unmounted ext4 data disks on which enable_encryption has
\* just marked EnableEncryption for the last settings it will get
InitUnmounted ==
    /\ ongoing_item_config = NoOngoingItemConfig
    /\ crypt_items = <<>>
    /\ encryption_marker = mark_encryption(EnableEncryption, VolumeTypeData, "")
    /\ decryption_marker = NoMark
    /\ encryption_config =
           [exists |-> TRUE, volume_type |-> VolumeTypeData,
            secret_seq_num |-> -1]
    /\ bek_passphrase = TRUE
    /\ header_slice_file = FALSE
    /\ mapper_open = {}
    /\ file_system = [d \in UnmountedDevices |-> "ext4"]
    /\ os_state = "uninitialized"
    /\ os_supported = TRUE
    /\ lock = NoProc
    /\ pc = [p \in Procs |-> "idle"]
    /\ loc = [p \in Procs |-> NoLocals]
    /\ status = [p \in Procs |-> "none"]
    /\ cur_seq = MaxSeq
    /\ last_seq = MaxSeq
    /\ settings = [operation |-> EnableEncryption,
                   volume_type |-> VolumeTypeData, disk_format_query |-> ""]
    /\ handler_exit = "returned"
    /\ passphrase = ""
    /\ keyslots = <<>>
    /\ bek_file = ""
    /\ bek_backup = ""
    /\ faults = 0

Init == InitInstalled \/ InitSeparateHeader \/ InitFormat \/ InitUnmounted

\* the steps of daemon process p
DaemonNext(p) ==
    \/ daemon(p)
    \/ daemon_decrypt(p)
    \/ daemon_encrypt(p)
    \/ encrypt_inplace_without_separate_header_file(p)
    \/ encrypt_inplace_with_separate_header_file(p)
    \/ decrypt_inplace_copy_data(p)

Next ==
    \/ \E p \in Procs : DaemonNext(p)
    \/ \E p \in Procs : Crash(p)
    \/ Reboot
    \/ NewSettings
    \/ enable_encryption
    \/ disable_encryption

Spec == Init /\ [][Next]_vars

\* every started daemon process keeps running until it ends or is killed,
\* and the agent keeps starting the daemon
FairSpec == Spec /\ \A p \in Procs : WF_vars(DaemonNext(p))

(***************************************************************************)
(* Key rotation.  The LUKS key slots of the encrypted volumes and the       *)
(* content of the key file and of its backup are followed from a VM whose   *)
(* data disks are encrypted; the agent hands it settings that carry a       *)
(* passphrase or none.                                                      *)
(***************************************************************************)
\* a VM after a completed EnableEncryption: up to two registered volumes,
\* each with the passphrase of the key file in its first key slot
RotationInit ==
    /\ ongoing_item_config = NoOngoingItemConfig
    /\ \E n \in 0..2 :
          /\ crypt_items =
                 [i \in 1..n |->
                     [mapper_name |-> MapperNames[i],
                      dev_path |-> DevIdPath(DeviceNames[i]),
                      luks_header_path |-> HeaderSentinel,
                      file_system |-> "ext4",
                      mount_point |->
                          IF DeviceMountPoint[DeviceNames[i]] = ""
                          THEN MountSentinel
                          ELSE DeviceMountPoint[DeviceNames[i]],
                      uses_cleartext_key |-> FALSE,
                      current_luks_slot |-> 0]]
          /\ mapper_open = {MapperNames[i] : i \in 1..n}
          /\ keyslots =
                 [m \in {MapperNames[i] : i \in 1..n} |->
                     [s \in 1..NumSlots |-> IF s = 1 THEN "K0" ELSE ""]]
    /\ encryption_marker = NoMark
    /\ decryption_marker = NoMark
    /\ encryption_config =
           [exists |-> TRUE, volume_type |-> VolumeTypeData,
            secret_seq_num |-> 0]
    /\ bek_passphrase = TRUE
    /\ header_slice_file = FALSE
    /\ file_system = [d \in Devices |-> "ext4"]
    /\ os_state = "uninitialized"
    /\ os_supported = TRUE
    /\ lock = NoProc
    /\ pc = [p \in Procs |-> "idle"]
    /\ loc = [p \in Procs |-> NoLocals]
    /\ status = [p \in Procs |-> "none"]
    /\ cur_seq = 0
    /\ last_seq = 0
    /\ settings = [operation |-> EnableEncryption,
                   volume_type |-> VolumeTypeData, disk_format_query |-> ""]
    /\ handler_exit = "none"
    /\ passphrase = "K0"
    /\ bek_file = "K0"
    /\ bek_backup = ""
    /\ faults = 0

\* the agent writes the next settings file: an enable operation with a
\* passphrase, or with none
RotationSettings ==
    /\ cur_seq < MaxRotations
    /\ cur_seq' = cur_seq + 1
    /\ passphrase' \in {"", "K1", "K2"}
    /\ handler_exit' = "none"
    /\ UNCHANGED <<persisted, environment, processes, last_seq, settings,
                   keyslots, bek_file, bek_backup, faults>>

\* the old passphrase is removed whatever the two files hold
NeverSame(existing_passphrase_file, bek_backup_path) == FALSE
\* filecmp.cmp(existing_passphrase_file, bek_backup_path)
filecmp(existing_passphrase_file, bek_backup_path) ==
    existing_passphrase_file = bek_backup_path

\* update_encryption_settings, which enable() runs for an enable operation
\* when the backup of the key file exists or the settings have changed.
\* Below the recorded secret sequence number: add the new key to every
\* registered volume, back up the key file, store the new passphrase, stamp
\* and reboot.  Otherwise: mount, pass the sequence gate, and remove the
\* passphrase of the backup from every volume unless the key file equals the
\* backup; then record the sequence number and delete the backup.
update_encryption_settings ==
    /\ lock = NoProc
    /\ settings.operation \in EnableCommands
    /\ bek_file # ""
    /\ LET n == Len(crypt_items)
           name(i) == crypt_items[i].mapper_name
           has(m, k) == \E s \in 1..NumSlots : keyslots[m][s] = k
           first(S) == CHOOSE s \in S : \A t \in S : s <= t
           free(m) == {s \in 1..NumSlots : keyslots[m][s] = ""}
           held(m) == {s \in 1..NumSlots : keyslots[m][s] = bek_backup}
           addable(i) == has(name(i), bek_file) /\ free(name(i)) # {}
           inuse == {bek_file, bek_backup} \cup
                    {keyslots[m][s] : m \in DOMAIN keyslots, s \in 1..NumSlots}
       IN
       IF encryption_config.secret_seq_num < cur_seq
       THEN \E new \in IF passphrase = "" THEN {"G1", "G2"} \ inuse
                       ELSE {passphrase} :
            \E k \in 0..n :
            \E stage \in {"loop", "backup", "store", "stamp"} :
            /\ \A i \in 1..k : addable(i)
            /\ stage # "loop" => k = n
            \* the loop ends early where the key cannot be added; anything
            \* else that ends the run early is a failure or a kill
            /\ IF stage = "stamp" \/ (stage = "loop" /\ k < n /\ ~addable(k + 1))
               THEN UNCHANGED faults
               ELSE CanFail /\ faults' = faults + 1
            /\ keyslots' =
                   [m \in DOMAIN keyslots |->
                       IF \E i \in 1..k : name(i) = m
                       THEN [keyslots[m] EXCEPT ![first(free(m))] = new]
                       ELSE keyslots[m]]
            /\ crypt_items' =
                   [i \in 1..n |->
                       IF i <= k
                       THEN [crypt_items[i] EXCEPT
                                !.current_luks_slot = first(free(name(i))) - 1]
                       ELSE crypt_items[i]]
            /\ bek_backup' = IF stage = "loop" THEN bek_backup ELSE bek_file
            /\ bek_file' = IF stage \in {"store", "stamp"} THEN new
                           ELSE bek_file
            /\ IF stage = "stamp"
               THEN /\ encryption_config' = StampedConfig(encryption_config)
                    /\ handler_exit' = "reboot"
                    /\ Rebooted
               ELSE /\ handler_exit' = "error"
                    /\ UNCHANGED <<encryption_config, mapper_open,
                                   processes>>
            /\ UNCHANGED last_seq
       ELSE /\ mapper_open' = mapper_open \cup
                   {m \in RegisteredNames : has(m, bek_file)}
            /\ UNCHANGED <<crypt_items, encryption_config, bek_file,
                           processes>>
            /\ IF exit_if_same_seq
               THEN /\ handler_exit' = "same_seq"
                    /\ UNCHANGED <<keyslots, bek_backup, last_seq, faults>>
               ELSE IF passphrase # "" /\ passphrase # bek_file
               THEN /\ handler_exit' = "no_status"
                    /\ UNCHANGED <<keyslots, bek_backup, last_seq, faults>>
               ELSE IF bek_backup = ""
               \* filecmp.cmp or, without a volume, os.unlink raises
               THEN /\ handler_exit' = "error"
                    /\ last_seq' = IF n = 0 THEN SavedSeq(last_seq, cur_seq)
                                   ELSE last_seq
                    /\ UNCHANGED <<keyslots, bek_backup, faults>>
               ELSE \E removed \in SUBSET (1..n) :
                    \E stage \in {"loop", "save_seq", "unlink"} :
                    /\ filecmp(bek_file, bek_backup) => removed = {}
                    /\ IF /\ stage = "unlink"
                          /\ \/ filecmp(bek_file, bek_backup)
                             \/ removed = 1..n
                       THEN UNCHANGED faults
                       ELSE CanFail /\ faults' = faults + 1
                    /\ keyslots' =
                           [m \in DOMAIN keyslots |->
                               IF /\ \E i \in removed : name(i) = m
                                  /\ held(m) # {}
                               THEN [keyslots[m] EXCEPT ![first(held(m))] = ""]
                               ELSE keyslots[m]]
                    /\ last_seq' = IF stage = "loop" THEN last_seq
                                   ELSE SavedSeq(last_seq, cur_seq)
                    /\ bek_backup' = IF stage = "unlink" THEN "" ELSE bek_backup
                    /\ handler_exit' = IF stage = "unlink" THEN "success"
                                       ELSE "killed"
    /\ UNCHANGED <<ongoing_item_config, encryption_marker, decryption_marker,
                   bek_passphrase, header_slice_file, file_system, os_state,
                   os_supported, cur_seq, settings, passphrase>>

\* enable() hands the settings to enable_encryption when no backup of the
\* key file exists and they have not changed; the daemon it starts stamps
\* the disks with the current sequence number
EnableStamps ==
    /\ lock = NoProc
    /\ settings.operation \in EnableCommands
    /\ bek_backup = ""
    /\ ~are_disks_stamped_with_current_config
    /\ encryption_config' = StampedConfig(encryption_config)
    /\ handler_exit' = "start_daemon"
    /\ UNCHANGED <<ongoing_item_config, crypt_items, encryption_marker,
                   decryption_marker, bek_passphrase, header_slice_file,
                   environment, processes, cur_seq, last_seq, settings,
                   passphrase, keyslots, bek_file, bek_backup, faults>>

RotationSpec ==
    RotationInit
    /\ [][RotationSettings \/ update_encryption_settings \/ EnableStamps]_vars

TypeOK ==
    /\ ongoing_item_config.exists \in BOOLEAN
    /\ faults \in 0..MaxFaults
    /\ cur_seq \in 0..MaxSeq
    /\ lock \in Procs \cup {NoProc}
    /\ RegisteredNames \subseteq {MapperNames[i] : i \in DOMAIN MapperNames}

(***************************************************************************)
(* Properties                                                               *)
(***************************************************************************)
\* an OnGoingItemConfig written by one of the two encryption machines
IsEncryptConfig(cfg) == cfg.exists /\ cfg.original_dev_name_path # NonePath
\* ... by the machine without a separate header file
IsWoConfig(cfg) ==
    IsEncryptConfig(cfg) /\ none_or_empty(cfg.luks_header_file_path)
\* ... by the decryption machine
IsDecryptConfig(cfg) == cfg.exists /\ cfg.original_dev_name_path = NonePath
\* the item an OnGoingItemConfig is the checkpoint of
ItemOf(cfg) ==
    IF IsEncryptConfig(cfg)
    THEN <<"encrypt", cfg.original_dev_name_path[2]>>
    ELSE <<"decrypt", cfg.current_destination[2]>>
AllSupported ==
    \A d \in DOMAIN file_system : SupportedFileSystem(file_system[d])
Registered(m) == m \in RegisteredNames
FreshLabels == {"wo_fresh", "sh_fresh", "dec_fresh"}

\* C1: idempotent resume.  When a machine that was re-run on a persisted
\* OnGoingItemConfig (every file system supported, no primitive failing in
\* the re-run) has returned, it has returned Done, the OnGoingItemConfig is
\* deleted (or left at Done for the resume branch to delete) and the item is
\* registered under the mapper name of the config.
C1_IdempotentResume ==
    \A p \in Procs :
        (/\ pc[p] = "machine_returned"
         /\ loc[p].resumed
         /\ ~loc[p].failed
         /\ AllSupported)
        => (/\ loc[p].ret = EncryptionPhaseDone
            /\ \/ ~ongoing_item_config.exists
               \/ ongoing_item_config.phase = EncryptionPhaseDone
            /\ Registered(loc[p].mapper_name))

\* C2: at most one in flight.  No step commits a fresh OnGoingItemConfig
\* while one is persisted, and no step replaces a persisted OnGoingItemConfig
\* by the checkpoint of a different item.
C2_Step ==
    /\ (\E p \in Procs : /\ pc[p] \in FreshLabels
                         /\ pc'[p] # pc[p]
                         /\ ongoing_item_config'.exists)
          => ~ongoing_item_config.exists
    /\ (ongoing_item_config.exists /\ ongoing_item_config'.exists)
          => ItemOf(ongoing_item_config') = ItemOf(ongoing_item_config)
C2_AtMostOneInFlight == [][C2_Step]_vars
\* a machine has failed on one device, its config is persisted, and the bulk
\* loop still has another device to go
C2_Witness ==
    \E p \in Procs :
        /\ pc[p] = "machine_returned"
        /\ loc[p].ret # EncryptionPhaseDone
        /\ ongoing_item_config.exists
        /\ Len(loc[p].todo_devices) > 1

\* the state a daemon killed during decryption leaves, once nothing fails
\* any more
DecryptionInterrupted ==
    /\ faults = MaxFaults
    /\ decryption_marker.exists
    /\ IsDecryptConfig(ongoing_item_config)
    /\ ongoing_item_config.phase = DecryptionPhaseCopyData
DecryptionCompleted ==
    /\ ~ongoing_item_config.exists
    /\ ~decryption_marker.exists
    /\ crypt_items = <<>>
\* C3: forward progress of decryption.  From a state with the decryption
\* mark and an OnGoingItemConfig in DecryptionPhaseCopyData persisted, with
\* no further failure, the decryption eventually completes: config deleted,
\* registry emptied, decryption mark cleared.
C3_DecryptionProgress == DecryptionInterrupted ~> DecryptionCompleted

\* the state a daemon killed during an in-place encryption leaves, once
\* nothing fails any more and no new settings arrive
EncryptionInterrupted ==
    /\ faults = MaxFaults
    /\ cur_seq = MaxSeq
    /\ settings.operation = EnableEncryption
    /\ encryption_marker.exists
    /\ ~decryption_marker.exists
    /\ IsEncryptConfig(ongoing_item_config)
    /\ AllSupported
    /\ os_supported
EncryptionCompleted ==
    /\ ~ongoing_item_config.exists
    /\ ~encryption_marker.exists
\* C4: forward progress of in-place encryption.  From a state with the
\* encryption mark and an encryption OnGoingItemConfig persisted (any
\* phase), with no further failure, the daemon eventually deletes the
\* config and clears the encryption mark.
C4_EncryptionProgress == EncryptionInterrupted ~> EncryptionCompleted

\* the place of a phase in BackupHeader -> EncryptDevice -> CopyData ->
\* RecoverHeader -> Done
PhaseRank(phase) ==
    CASE phase = EncryptionPhaseBackupHeader -> 0
      [] phase = EncryptionPhaseEncryptDevice -> 1
      [] phase = EncryptionPhaseCopyData -> 2
      [] phase = EncryptionPhaseRecoverHeader -> 3
      [] phase = EncryptionPhaseDone -> 4
      [] OTHER -> 9
\* C5: phase order.  A step that leaves an OnGoingItemConfig of the machine
\* without separate header persisted keeps its phase or moves it to the
\* next one of BackupHeader -> EncryptDevice -> CopyData -> RecoverHeader ->
\* Done; from Done the phase does not move.
C5_Step ==
    (IsWoConfig(ongoing_item_config) /\ ongoing_item_config'.exists)
    => /\ IsWoConfig(ongoing_item_config')
       /\ PhaseRank(ongoing_item_config.phase) <= 4
       /\ \/ PhaseRank(ongoing_item_config'.phase) =
                 PhaseRank(ongoing_item_config.phase)
          \/ /\ PhaseRank(ongoing_item_config.phase) < 4
             /\ PhaseRank(ongoing_item_config'.phase) =
                    PhaseRank(ongoing_item_config.phase) + 1
C5_PhaseOrder == [][C5_Step]_vars
\* an operation that was interrupted and resumed has reached Done
C5_Witness ==
    \E p \in Procs :
        /\ loc[p].resumed
        /\ pc[p] = "wo_expand"
        /\ ongoing_item_config.phase = EncryptionPhaseDone

\* the places where a primitive runs inside a phase, after the preflight
InPhase(p) ==
    \/ pc[p] \in {"wo_backup_copy", "wo_data_copy", "wo_recover_copy",
                  "sh_data_copy", "dec_copy"}
    \/ /\ pc[p] \in {"wo_loop", "sh_loop"}
       /\ loc[p].current_phase \in
              {EncryptionPhaseEncryptDevice, EncryptionPhaseCopyData}
\* C6: retryable in place.  When a primitive fails inside a phase after the
\* preflight, the machine returns that phase, the OnGoingItemConfig still
\* exists with the same persisted phase, which is the phase returned, and
\* the registry is unchanged.
C6_Step ==
    \A p \in Procs :
        (InPhase(p) /\ pc'[p] = "machine_returned" /\ faults' = faults + 1)
        => /\ loc'[p].ret = loc[p].current_phase
           /\ ongoing_item_config'.exists
           /\ ongoing_item_config'.phase = ongoing_item_config.phase
           /\ ongoing_item_config'.phase = loc'[p].ret
           /\ crypt_items' = crypt_items
C6_RetryableInPlace == [][C6_Step]_vars
\* the data copy failed after a committed slice
C6_Witness ==
    \E p \in Procs :
        /\ pc[p] = "machine_returned"
        /\ loc[p].failed
        /\ loc[p].ret = EncryptionPhaseCopyData
        /\ ongoing_item_config.phase = EncryptionPhaseCopyData
        /\ ongoing_item_config.current_slice_index > 0

\* C7: abandon and clear.  When the machine returns out of the preflight of
\* BackupHeader (file system not ext2/3/4, or shrink check failed), the
\* OnGoingItemConfig is deleted, BackupHeader is returned, and this call has
\* copied nothing, run no encrypt_disk and left the registry, the mappers
\* and the scratch file as they were.
C7_Step ==
    \A p \in Procs :
        (/\ pc[p] = "wo_loop"
         /\ loc[p].current_phase = EncryptionPhaseBackupHeader
         /\ pc'[p] = "machine_returned")
        => /\ ~ongoing_item_config'.exists
           /\ loc'[p].ret = EncryptionPhaseBackupHeader
           /\ loc'[p].prims \subseteq {"check_shrink_fs"}
           /\ crypt_items' = crypt_items
           /\ mapper_open' = mapper_open
           /\ header_slice_file' = header_slice_file
C7_AbandonAndClear == [][C7_Step]_vars
\* a resume in BackupHeader was abandoned
C7_Witness ==
    \E p \in Procs :
        /\ pc[p] = "machine_returned"
        /\ loc[p].machine = "wo"
        /\ loc[p].resumed
        /\ loc[p].ret = EncryptionPhaseBackupHeader
        /\ ~ongoing_item_config.exists

\* C8: direction.  Whenever the data copy of phase CopyData of the machine
\* without separate header is running, the persisted cursor says: from the
\* end, from the original raw device, into the mapper device of the
\* operation, device size minus LUKS header size in total.
C8_Direction ==
    \A p \in Procs :
        pc[p] = "wo_data_copy"
        => /\ ongoing_item_config.from_end
           /\ ongoing_item_config.current_source_path =
                  ongoing_item_config.original_dev_path
           /\ ongoing_item_config.current_source_path[1] = "/dev"
           /\ ongoing_item_config.current_destination =
                  MapperPath(ongoing_item_config.mapper_name)
           /\ ongoing_item_config.current_total_copy_size =
                  ongoing_item_config.device_size - luks_header_size
           /\ ongoing_item_config.device_size =
                  DeviceSize[ongoing_item_config.original_dev_path[2]]
\* a resumed data copy that continues behind a committed slice
C8_Witness ==
    \E p \in Procs :
        /\ pc[p] = "wo_data_copy"
        /\ loc[p].resumed
        /\ ongoing_item_config.current_slice_index > 0
        /\ ~CopyFinished(ongoing_item_config)

\* the registry holds crypt_item with the in-place header sentinel
SentinelRegistered(items, crypt_item) ==
    \E i \in DOMAIN items :
        /\ items[i].mapper_name = crypt_item.mapper_name
        /\ items[i].luks_header_path = HeaderSentinel
\* C9: decryption precondition.  When disable_encryption_all_in_place takes
\* up a registered item whose header is in place (sentinel), whose mapper
\* device exists and has the size of the raw device, the item is returned
\* as failed (the daemon leaves with an error), no OnGoingItemConfig is
\* created, nothing is copied and the item stays in the registry.
C9_Step ==
    \A p \in Procs :
        (/\ pc[p] = "disable_loop"
         /\ pc'[p] # "disable_loop"
         /\ loc[p].todo_items # <<>>
         /\ SentinelRegistered(crypt_items, Head(loc[p].todo_items))
         /\ Head(loc[p].todo_items).mapper_name \in mapper_open
         /\ loc'[p].mapper_size =
                DeviceSize[Head(loc[p].todo_items).dev_path[2]])
        => /\ pc'[p] = "release"
           /\ status'[p] = "error"
           /\ loc'[p].crypt_item = Head(loc[p].todo_items)
           /\ loc'[p].ret = PyNone
           /\ loc'[p].prims = {}
           /\ ~ongoing_item_config'.exists
           /\ crypt_items' = crypt_items
           /\ SentinelRegistered(crypt_items', loc'[p].crypt_item)
C9_DecryptPrecondition == [][C9_Step]_vars
\* the daemon leaves with the in-place item whose sizes are equal
C9_Witness ==
    \E p \in Procs :
        /\ pc[p] = "release"
        /\ status[p] = "error"
        /\ loc[p].machine = "dec"
        /\ loc[p].ret = PyNone
        /\ SentinelRegistered(crypt_items, loc[p].crypt_item)
        /\ loc[p].mapper_size = DeviceSize[loc[p].crypt_item.dev_path[2]]
        /\ ~ongoing_item_config.exists

\* the daemon processes that are past the lock
PastLock == {p \in Procs : pc[p] \notin {"idle", "refused"}}
\* a step of daemon process p while another process holds the lock: its
\* start, and its end after it was refused (not the reboot of the VM)
RefusedStep(p) ==
    /\ lock \notin {NoProc, p}
    /\ \/ pc[p] = "idle" /\ pc'[p] # "idle"
       \/ pc[p] = "refused" /\ pc'[p] # "refused" /\ faults' = faults
C10_Step ==
    \A p \in Procs :
        RefusedStep(p)
        => /\ pc'[p] \in {"refused", "idle"}
           /\ persisted' = persisted
           /\ environment' = environment
           /\ lock' = lock
\* C10: the daemon lock fails closed.  At most one daemon process is past
\* the lock, and it holds the lock; a daemon that finds the lock held by
\* another returns, and its steps change no persisted record, no device
\* state and not the lock.
C10_LockFailsClosed ==
    /\ [](Cardinality(PastLock) <= 1 /\ \A p \in PastLock : lock = p)
    /\ [][C10_Step]_vars
\* a daemon was refused while the other one is copying data
C10_Witness ==
    \E p, q \in Procs :
        /\ p # q
        /\ pc[p] = "refused"
        /\ lock = q
        /\ pc[q] = "wo_data_copy"
        /\ ongoing_item_config.current_slice_index > 0

\* the places of daemon_decrypt and of what it calls
DecryptLabels == {"disable_loop", "dec_fresh", "dec_copy", "dec_clear",
                  "decrypt_succeeded", "decrypt_clear_mark"}
InDecrypt(label, machine) ==
    \/ label \in DecryptLabels
    \/ label = "machine_returned" /\ machine = "dec"
\* C11: daemon branch priority.  A daemon that finds the decryption mark
\* when it branches enters daemon_decrypt, and from there until it ends it
\* stays in the decrypt path: it runs no encryption phase machine, does not
\* stamp (the EncryptionConfig is left alone or cleared), does not touch the
\* OS volume or the encryption mark, whether or not an encryption mark
\* exists and however the decryption goes.
C11_Step ==
    \A p \in Procs :
        /\ (pc[p] = "locked" /\ decryption_marker.exists /\ pc'[p] # "locked")
           => \/ InDecrypt(pc'[p], loc'[p].machine)
              \/ pc'[p] \in {"release", "idle"}
        /\ InDecrypt(pc[p], loc[p].machine)
           => /\ \/ InDecrypt(pc'[p], loc'[p].machine)
                 \/ pc'[p] \in {"release", "idle"}
              /\ encryption_config' \in {encryption_config, NoEncryptionConfig}
              /\ encryption_marker' = encryption_marker
              /\ os_state' = os_state
        /\ pc[p] = "release" => pc'[p] \in {"release", "idle"}
C11_BranchPriority == [][C11_Step]_vars
\* a failed decryption run, and one that succeeded, with the encryption
\* mark still there
C11_Witness ==
    \E p \in Procs :
        /\ pc[p] = "release"
        /\ status[p] \in {"error", "success"}
        /\ loc[p].machine = "dec"
        /\ encryption_marker.exists

\* the places where the daemon encrypts, stamps or handles the OS volume
EncryptLabels == {"bulk_loop", "wo_fresh", "wo_loop", "wo_backup_copy",
                  "wo_encrypted", "wo_data_copy", "wo_recover_copy",
                  "wo_recover_add", "wo_recover_clean", "wo_recover_done",
                  "wo_expand", "sh_fresh", "sh_loop", "sh_encrypted",
                  "sh_opened", "sh_data_copy", "sh_add", "sh_done",
                  "sh_clear", "format_loop", "format_encrypted",
                  "os_volume"}
\* C12: daemon no-op.  No step of a daemon that runs while neither mark
\* exists enters an encryption machine, the stamping or the OS-volume part,
\* changes the EncryptionConfig, the OnGoingItemConfig, the registry or the
\* OS volume, or reports an error.
C12_Step ==
    \A p \in Procs :
        (/\ pc[p] \notin {"idle", "refused"}
         /\ ~encryption_marker.exists
         /\ ~decryption_marker.exists
         /\ pc'[p] \notin {pc[p], "idle"})
        => /\ pc'[p] \notin EncryptLabels
           /\ encryption_config' = encryption_config
           /\ ongoing_item_config' = ongoing_item_config
           /\ crypt_items' = crypt_items
           /\ os_state' = os_state
           /\ status'[p] # "error"
C12_DaemonNoOp == [][C12_Step]_vars

\* daemon process p reports st in this step
Reports(p, st) == status'[p] = st /\ status[p] # st
\* a step that removes a mark
ClearsMark ==
    \/ encryption_marker.exists /\ ~encryption_marker'.exists
    \/ decryption_marker.exists /\ ~decryption_marker'.exists
\* the step of daemon_encrypt_data_volumes that finds the disk format query
\* of an EnableEncryptionFormat mark unparsable
UnparsableQueryStep(p) ==
    /\ pc[p] = "data_volumes"
    /\ ~ongoing_item_config.exists
    /\ encryption_marker.exists
    /\ encryption_marker.command = EnableEncryptionFormat
    /\ ~json_parses(encryption_marker.disk_format_query)
    /\ pc'[p] \notin {"data_volumes", "idle"}
\* the mark of the branch the daemon is in is gone once it reports success
SuccessClears(p) ==
    Reports(p, "success")
    => IF InDecrypt(pc[p], loc[p].machine)
       THEN ~decryption_marker'.exists
       ELSE ~encryption_marker'.exists
\* a mark is removed only by a daemon on its way to reporting success
ClearedOnSuccessOnly(p) ==
    /\ (pc[p] # pc'[p] /\ ClearsMark)
       => \/ pc'[p] = "encrypt_returned"
          \/ Reports(p, "success")
    /\ (pc[p] = "encrypt_returned" /\ pc'[p] \notin {"encrypt_returned", "idle"})
       => Reports(p, "success")
\* C13 as stated: mark clear versus retain.  The step in which a daemon
\* reports success leaves the mark of its branch cleared; a step in which
\* it reports an error (for any reason, the unparsable disk format query
\* included) leaves both marks as they were, and a mark is only ever removed
\* by a daemon that then reports success.
C13_Stated_Step ==
    /\ ClearsMark => \E p \in Procs : pc[p] # pc'[p] /\ pc[p] # "idle"
    /\ \A p \in Procs :
        /\ SuccessClears(p)
        /\ Reports(p, "error") => ~ClearsMark
        /\ ClearedOnSuccessOnly(p)
C13_MarkClearOrRetain == [][C13_Stated_Step]_vars
\* C13 amended: as stated, except that the run that finds the disk format
\* query unparsable clears the encryption mark in the step in which it
\* fails.
C13_Amended_Step ==
    /\ ClearsMark => \E p \in Procs : pc[p] # pc'[p] /\ pc[p] # "idle"
    /\ \A p \in Procs :
        /\ SuccessClears(p)
        /\ IF UnparsableQueryStep(p)
           THEN /\ Reports(p, "error")
                /\ ~encryption_marker'.exists
                /\ decryption_marker' = decryption_marker
           ELSE /\ Reports(p, "error") => ~ClearsMark
                /\ ClearedOnSuccessOnly(p)
C13_MarkClearOrRetainAmended == [][C13_Amended_Step]_vars
\* a run that failed on an item and left the mark, after an earlier device
\* was encrypted
C13_Witness ==
    \E p \in Procs :
        /\ pc[p] = "release"
        /\ status[p] = "error"
        /\ loc[p].failed
        /\ encryption_marker.exists
        /\ crypt_items # <<>>

\* C14: mark mutual exclusion.  Whenever no daemon is running (every run of
\* the handler and of the daemon has finished), the encryption mark and the
\* decryption mark do not both exist.
C14_MarkMutualExclusion ==
    lock = NoProc => ~(encryption_marker.exists /\ decryption_marker.exists)

\* a run of the handler (one pass of enable_encryption or disable_encryption)
HandlerStep ==
    /\ lock = NoProc
    /\ cur_seq' = cur_seq
    /\ handler_exit' # handler_exit \/ last_seq' # last_seq
\* the run changes no mark, no passphrase and no registry entry
RunsNothing ==
    /\ encryption_marker' = encryption_marker
    /\ decryption_marker' = decryption_marker
    /\ bek_passphrase' = bek_passphrase
    /\ crypt_items' = crypt_items
\* C15 as stated: sequence idempotency.  A run of the handler with the
\* sequence number that is on record commits no mark, generates no
\* passphrase, adds no cleartext key and starts no daemon; a run with a
\* greater sequence number passes the gate (the number is recorded).
C15_Stated_Step ==
    HandlerStep
    => /\ cur_seq = last_seq
          => RunsNothing /\ handler_exit' # "start_daemon"
       /\ cur_seq > last_seq => last_seq' = cur_seq
C15_SequenceIdempotency == [][C15_Stated_Step]_vars
\* the mark of the requested operation exists: the operation is pending
MarkPending ==
    IF settings.operation = DisableEncryption
    THEN decryption_marker.exists
    ELSE encryption_marker.exists
\* enable_encryption leaves before the gate: EncryptionConfig without a
\* passphrase file
PassphraseMissing ==
    /\ settings.operation \in EnableCommands
    /\ ~bek_passphrase
    /\ encryption_config.exists
\* C15 amended: while the mark of the requested operation exists the
\* handler only starts the daemon, whatever the sequence number; with no
\* mark (and the passphrase file not missing) a run with the sequence
\* number on record changes nothing and starts no daemon, and a run with a
\* greater one passes the gate and records the number.
C15_Amended_Step ==
    HandlerStep
    => IF PassphraseMissing
       THEN RunsNothing /\ last_seq' = last_seq /\ handler_exit' = "no_status"
       ELSE IF MarkPending
       THEN RunsNothing /\ last_seq' = last_seq /\ handler_exit' = "start_daemon"
       ELSE /\ cur_seq = last_seq
               => RunsNothing /\ handler_exit' = "same_seq"
            /\ cur_seq > last_seq => last_seq' = cur_seq
C15_SequenceIdempotencyAmended == [][C15_Amended_Step]_vars
\* the gate has short-circuited a run after the operation was done, and
\* before that a later sequence number was let through
C15_Witness ==
    /\ handler_exit = "same_seq"
    /\ cur_seq = last_seq
    /\ cur_seq > 0
    /\ ~MarkPending

\* C16: the sequence number on record is that of a completed operation.
\* When the last run of the handler was killed behind the gate and the mark
\* of the requested operation is not committed, the gate does not
\* short-circuit a run with the same sequence number.
C16_CompletedSequence ==
    (handler_exit = "killed" /\ ~MarkPending) => ~exit_if_same_seq

\* the bulk in-place encryption of the three unmounted disks has returned
\* the device of p as the failed item: its shrink check failed, and that
\* was the only failure
ShrinkCheckFailed(p) ==
    /\ DOMAIN file_system = UnmountedDevices
    /\ pc[p] = "release"
    /\ status[p] = "error"
    /\ loc[p].machine = "wo"
    /\ ~loc[p].resumed
    /\ loc[p].failed
    /\ loc[p].prims = {"check_shrink_fs"}
    /\ faults = 1
    /\ Len(crypt_items) + Len(loc[p].todo_devices) = 3
\* device d reached Done: registered under a mapper name of its own that is
\* open, not unlocked by a cleartext key
RegisteredDone(d) ==
    \E i \in DOMAIN crypt_items :
        /\ crypt_items[i].dev_path = DevIdPath(d)
        /\ ~crypt_items[i].uses_cleartext_key
        /\ crypt_items[i].mapper_name \in mapper_open
        /\ \A j \in DOMAIN crypt_items :
               j # i => crypt_items[j].mapper_name # crypt_items[i].mapper_name
\* device d was not touched: not registered, no checkpoint
Untouched(d) ==
    /\ ~\E i \in DOMAIN crypt_items : crypt_items[i].dev_path[2] = d
    /\ ~ongoing_item_config.exists
\* C17 as stated: whichever of the three devices failed its shrink check,
\* it is the failed item and the other two reached Done and are registered.
C17_ThreeDevices ==
    \A p \in Procs :
        ShrinkCheckFailed(p)
        => /\ loc[p].dev = Head(loc[p].todo_devices)
           /\ \A d \in UnmountedDevices \ {loc[p].dev} : RegisteredDone(d)
\* C17 amended: the device that failed its shrink check is the failed item,
\* the devices before it in the list reached Done and are registered, the
\* devices after it were not touched.
C17_ThreeDevicesAmended ==
    \A p \in Procs :
        ShrinkCheckFailed(p)
        => LET later == Tail(loc[p].todo_devices) IN
           /\ loc[p].dev = Head(loc[p].todo_devices)
           /\ \A d \in UnmountedDevices \ {loc[p].dev} :
                  IF \E k \in DOMAIN later : later[k] = d
                  THEN Untouched(d)
                  ELSE RegisteredDone(d)
\* the second of the three devices failed its shrink check
C17_Witness ==
    \E p \in Procs :
        /\ ShrinkCheckFailed(p)
        /\ Len(crypt_items) = 1
        /\ Len(loc[p].todo_devices) = 2

\* the step in which enable_encryption_all_in_place gets a phase other than
\* Done back from the machine
EncryptItemFails(p) ==
    /\ pc[p] = "machine_returned"
    /\ loc[p].machine \in {"wo", "sh"}
    /\ ~loc[p].resumed
    /\ loc[p].ret # EncryptionPhaseDone
    /\ pc'[p] \notin {"machine_returned", "idle"}
\* the step in which disable_encryption_all_in_place gets a phase other
\* than Done back, finds no mapper device, or finds the sizes mismatched
DecryptItemFails(p) ==
    \/ /\ pc[p] = "machine_returned"
       /\ loc[p].machine = "dec"
       /\ loc[p].ret # DecryptionPhaseDone
       /\ pc'[p] \notin {"machine_returned", "idle"}
    \/ /\ pc[p] = "disable_loop"
       /\ loc[p].todo_items # <<>>
       /\ pc'[p] \notin {"disable_loop", "idle"}
       /\ \/ Head(loc[p].todo_items).mapper_name \notin mapper_open
          \/ DecryptSizeMismatch(loc'[p].crypt_item,
                 DeviceSize[loc'[p].crypt_item.dev_path[2]],
                 loc'[p].mapper_size)
\* the bulk operation is left with an error and nothing on disk changes
HaltsUnchanged(p) ==
    /\ pc'[p] = "release"
    /\ status'[p] = "error"
    /\ persisted' = persisted
    /\ mapper_open' = mapper_open
    /\ file_system' = file_system
C18_Step ==
    \A p \in Procs :
        /\ EncryptItemFails(p)
           => /\ HaltsUnchanged(p)
              /\ loc'[p].todo_devices = loc[p].todo_devices
              /\ loc'[p].dev = Head(loc'[p].todo_devices)
        /\ DecryptItemFails(p)
           => /\ HaltsUnchanged(p)
              /\ loc'[p].todo_items = loc[p].todo_items
              /\ loc'[p].crypt_item = Head(loc'[p].todo_items)
        /\ (pc[p] = "release" /\ pc'[p] # "release" /\ faults' = faults)
           => /\ persisted' = persisted
              /\ mapper_open' = mapper_open
              /\ file_system' = file_system
DecryptHalted ==
    \E p \in Procs :
        /\ pc[p] = "release"
        /\ status[p] = "error"
        /\ loc[p].machine = "dec"
        /\ Len(loc[p].todo_items) > 1

\* the step in which enable_encryption_all_in_place returns None
BulkReturnsNone(p) ==
    /\ pc[p] = "bulk_loop"
    /\ loc[p].todo_devices = <<>>
    /\ pc'[p] \notin {"bulk_loop", "idle"}
C19_Step ==
    \A p \in Procs :
        BulkReturnsNone(p)
        => find_all_devices_to_encrypt(encryption_marker) = <<>>
\* C19: enable_encryption_all_in_place returns None only if every selected
\* device reached Done: none of them is left to encrypt.
C19_NeverSwallowed == [][C19_Step]_vars

\* no two items of the registry share a mapper name
UniqueNames(items) ==
    \A i, j \in DOMAIN items :
        items[i].mapper_name = items[j].mapper_name => i = j
\* the step in which a machine or the format loop registers its item while
\* the mapper name is already registered
DuplicateAdd(p) ==
    /\ \/ pc[p] = "wo_recover_add" /\ pc'[p] = "wo_recover_clean"
       \/ pc[p] = "sh_add" /\ pc'[p] = "sh_done"
       \/ pc[p] = "format_encrypted" /\ pc'[p] = "format_loop"
    /\ loc[p].mapper_name \in RegisteredNames
C20_Step ==
    /\ UniqueNames(crypt_items)
    /\ UniqueNames(crypt_items')
    /\ \A p \in Procs : DuplicateAdd(p) => crypt_items' = crypt_items
\* C20: whatever encryptions (fresh or resumed after a crash), format
\* encryptions and decryptions ran, no two items of the registry share a
\* mapper name, and adding an item under a registered name leaves the
\* registry as it was.
C20_RegistryUniqueness == [][C20_Step]_vars
\* a resumed machine is about to register its item a second time: the first
\* run crashed inside the final phase, after the add
C20_Witness ==
    \E p \in Procs :
        /\ pc[p] \in {"wo_recover_add", "sh_add"}
        /\ loc[p].resumed
        /\ faults > 0
        /\ loc[p].mapper_name \in RegisteredNames
        /\ UniqueNames(crypt_items)

\* OS-volume encryption is requested on a distro without a state machine
OsRequestedUnsupported ==
    /\ ~os_supported
    /\ encryption_config.exists
    /\ encryption_config.volume_type \in {VolumeTypeOS, VolumeTypeAll}
\* p is inside daemon_encrypt
InDaemonEncrypt(p) ==
    /\ lock = p
    /\ \/ pc[p] \in EncryptLabels \cup {"data_volumes"}
       \/ pc[p] = "machine_returned" /\ loc[p].machine \in {"wo", "sh"}
C21_Step ==
    \A p \in Procs :
        (InDaemonEncrypt(p) /\ OsRequestedUnsupported)
        => /\ persisted' = persisted
           /\ file_system' = file_system
           /\ (pc[p] = "os_volume" /\ pc'[p] \notin {"os_volume", "idle"})
              => (pc'[p] = "release" /\ status'[p] = "error")
\* C21: fatal-to-process leaves state untouched.  While daemon_encrypt runs
\* with the OS volume requested on an unsupported distro, no step changes a
\* persisted record or a data volume, and the OS-volume part exits with an
\* error.
C21_FatalLeavesState == [][C21_Step]_vars

\* p is in the loop of enable_encryption_format with a device to encrypt or
\* to format
FormatDestructive(p) ==
    \/ pc[p] = "format_loop" /\ loc[p].todo_devices # <<>>
    \/ pc[p] = "format_encrypted"
\* the step in which the stamping of daemon_encrypt_data_volumes raises
StampingRaises(p) ==
    /\ pc[p] = "data_volumes"
    /\ ~ongoing_item_config.exists
    /\ encryption_marker.exists
    /\ pc'[p] = "release"
C22_Step ==
    /\ \A p \in Procs :
        /\ FormatDestructive(p)' => are_disks_stamped_with_current_config'
        /\ StampingRaises(p)
           => /\ environment' = environment
              /\ crypt_items' = crypt_items
              /\ ongoing_item_config' = ongoing_item_config
    /\ (os_state = "uninitialized" /\ os_state' # os_state)
       => are_disks_stamped_with_current_config'
Enumerations == UNION {[1..n -> BlockDevices] : n \in 0..MaxEnumerated}
\* the device passes the filters of the selection policy
Eligible(d, marker) ==
    /\ ~should_skip_for_inplace_encryption(d, marker.volume_type)
    /\ d # passphrase_device
    /\ marker.command = EnableEncryptionFormatAll
       => /\ DeviceMountPoint[d] # ""
          /\ DevPath(d) \in dev_path_reference_table
\* where a device is first listed
FirstIndex(items, d) ==
    CHOOSE i \in DOMAIN items :
        items[i] = d /\ \A j \in 1..(i - 1) : items[j] # d
\* selected is exactly the eligible devices of items, in the order of
\* items, each once
IsSelectionOf(selected, items, marker) ==
    /\ {selected[i] : i \in DOMAIN selected} =
           {d \in {items[i] : i \in DOMAIN items} : Eligible(d, marker)}
    /\ \A i, j \in DOMAIN selected :
           i < j => FirstIndex(items, selected[i]) < FirstIndex(items, selected[j])
C23_Step ==
    \A p \in Procs :
        (pc[p] = "data_volumes" /\ pc'[p] = "bulk_loop")
        => /\ IsSelectionOf(loc'[p].todo_devices, get_device_items,
                            encryption_marker)
           /\ \A items \in Enumerations :
              \A command \in {EnableEncryption, EnableEncryptionFormatAll} :
                  LET marker == mark_encryption(command, VolumeTypeData, "")
                  IN  IsSelectionOf(find_devices(items, <<>>, marker),
                                    items, marker)
\* C23: selection policy.  What find_all_devices_to_encrypt selects is
\* exactly the listed devices that are not skipped by the filter and are not
\* the passphrase device, in the order listed and each once; format-all
\* also leaves out the devices without mount point or without Azure udev
\* alias, in-place encryption does not.
C23_SelectionPolicy == [][C23_Step]_vars
\* the daemon has selected the devices left to encrypt next to a registered
\* one
C23_Witness ==
    \E p \in Procs :
        /\ pc[p] = "bulk_loop"
        /\ ~loc[p].resumed
        /\ crypt_items # <<>>
        /\ loc[p].todo_devices # <<>>
        /\ loc[p].todo_devices = find_all_devices_to_encrypt(encryption_marker)

\* the phases before the terminal step of an encryption
EarlyPhases == {EncryptionPhaseBackupHeader, EncryptionPhaseEncryptDevice,
                EncryptionPhaseCopyData}
\* the device of the OnGoingItemConfig has a registry entry
ConfigDeviceRegistered ==
    \E i \in DOMAIN crypt_items :
        crypt_items[i].dev_path[2] = ongoing_item_config.original_dev_name_path[2]
\* a name enters the registry only in the step after the last copy of a
\* machine, or after format_disk
AddedInTerminalStep ==
    RegisteredNames' \ RegisteredNames # {}
    => \E p \in Procs :
        /\ pc[p] \in {"wo_recover_add", "sh_add", "format_encrypted"}
        /\ RegisteredNames' \ RegisteredNames = {loc[p].mapper_name}
        /\ pc[p] = "sh_add" => CopyFinished(ongoing_item_config)
\* a name leaves the registry only after its decryption returned Done
RemovedAfterDone ==
    RegisteredNames \ RegisteredNames' # {}
    => \E p \in Procs :
        /\ pc[p] = "machine_returned"
        /\ loc[p].machine = "dec"
        /\ loc[p].ret = DecryptionPhaseDone
        /\ RegisteredNames \ RegisteredNames' = {loc[p].crypt_item.mapper_name}
C24_Stated_Step ==
    /\ AddedInTerminalStep
    /\ RemovedAfterDone
    /\ (ongoing_item_config.exists /\ ongoing_item_config.phase \in EarlyPhases)'
       => ~ConfigDeviceRegistered'
\* C24 as stated: a CryptItem is added only in the terminal step of its
\* encryption, no device whose persisted phase is BackupHeader, EncryptDevice
\* or CopyData has a registry entry, and a CryptItem is removed only after
\* its decryption returned Done.
C24_Lifecycle == [][C24_Stated_Step]_vars
\* the machine with separate header has registered its item and not yet
\* committed Done
RegisteredBeforeDone(cfg) ==
    /\ ~none_or_empty(cfg.luks_header_file_path)
    /\ cfg.phase = EncryptionPhaseCopyData
    /\ CopyFinished(cfg)
C24_Amended_Step ==
    /\ AddedInTerminalStep
    /\ RemovedAfterDone
    /\ (ongoing_item_config.exists /\ ongoing_item_config.phase \in EarlyPhases
        /\ ConfigDeviceRegistered)'
       => RegisteredBeforeDone(ongoing_item_config')
\* C24 amended: the same, except that the machine with separate header
\* registers its item while the persisted phase is still CopyData, after
\* the copy finished and before Done is committed.
C24_LifecycleAmended == [][C24_Amended_Step]_vars
\* the item of a device is registered while its persisted phase is CopyData
C24_Witness ==
    /\ ongoing_item_config.exists
    /\ ongoing_item_config.phase = EncryptionPhaseCopyData
    /\ ConfigDeviceRegistered
    /\ \E p \in Procs : pc[p] = "sh_done"

\* the phase the position of p inside an encrypt machine belongs to: the
\* phase whose primitive runs there or has just completed
PositionPhase(p) ==
    CASE pc[p] \in {"wo_loop", "sh_loop"} -> loc[p].current_phase
      [] pc[p] = "wo_backup_copy" -> EncryptionPhaseBackupHeader
      [] pc[p] \in {"wo_encrypted", "sh_encrypted"} ->
             EncryptionPhaseEncryptDevice
      [] pc[p] \in {"wo_data_copy", "sh_opened", "sh_data_copy", "sh_add",
                    "sh_done"} -> EncryptionPhaseCopyData
      [] pc[p] \in {"wo_recover_copy", "wo_recover_add", "wo_recover_clean",
                    "wo_recover_done"} -> EncryptionPhaseRecoverHeader
      [] pc[p] \in {"wo_expand", "sh_clear"} -> EncryptionPhaseDone
      [] OTHER -> ""
\* p is inside an encrypt machine, past the first commit
InEncryptMachine(p) == PositionPhase(p) # ""
\* the persisted phase is the phase p is in
Checkpointed(p) ==
    InEncryptMachine(p)
    => /\ ongoing_item_config.exists
       /\ ongoing_item_config.phase = PositionPhase(p)
\* the step deletes the OnGoingItemConfig of an encryption
EncryptConfigDeleted ==
    /\ ongoing_item_config.exists
    /\ ongoing_item_config.phase \in EarlyPhases \cup
           {EncryptionPhaseRecoverHeader, EncryptionPhaseDone}
    /\ ~ongoing_item_config'.exists
\* the step in which phase BackupHeader gives the device up
BackupHeaderAbandon ==
    \E p \in Procs :
        /\ pc[p] = "wo_loop"
        /\ loc[p].current_phase = EncryptionPhaseBackupHeader
        /\ pc'[p] = "machine_returned"
C25_Step ==
    /\ \A p \in Procs : Checkpointed(p)'
    /\ EncryptConfigDeleted
       => \/ ongoing_item_config.phase = EncryptionPhaseDone
          \/ BackupHeaderAbandon
\* C25: checkpoint before next step.  Wherever a process stands inside an
\* encrypt machine, the persisted phase is the phase whose primitive runs
\* there or has just completed; the OnGoingItemConfig of an encryption is
\* deleted only with phase Done committed, or by the BackupHeader abandon.
C25_CheckpointFirst == [][C25_Step]_vars
\* a resumed machine copies data under the persisted phase CopyData
C25_Witness ==
    \E p \in Procs :
        /\ pc[p] \in {"wo_data_copy", "sh_data_copy"}
        /\ loc[p].resumed
        /\ ongoing_item_config.phase = EncryptionPhaseCopyData
        /\ ongoing_item_config.current_slice_index > 0

\* some process is inside an encrypt machine
EncryptMachineRuns == \E p \in Procs : InEncryptMachine(p)
C26_Step ==
    /\ \A p \in Procs :
        /\ InEncryptMachine(p)'
           => /\ ongoing_item_config'.exists
              /\ ongoing_item_config'.mapper_name \in
                     {MapperNames[i] : i \in DOMAIN MapperNames}
              /\ loc'[p].mapper_name = ongoing_item_config'.mapper_name
        /\ (InEncryptMachine(p) /\ ongoing_item_config'.exists)
           => ongoing_item_config'.mapper_name = ongoing_item_config.mapper_name
        /\ pc'[p] \in {"wo_data_copy", "sh_data_copy"}
           => ongoing_item_config'.current_destination =
                  MapperPath(ongoing_item_config'.mapper_name)
    /\ EncryptMachineRuns
       => /\ mapper_open' \ mapper_open \subseteq {ongoing_item_config.mapper_name}
          /\ RegisteredNames' \ RegisteredNames \subseteq
                 {ongoing_item_config.mapper_name}
\* C26: the mapper name is chosen once.  From the first commit on, through
\* every resume, the machine works with the mapper name of the
\* OnGoingItemConfig, which does not change: the mapper it opens, the
\* destination of the data copy and the item it registers carry that name.
C26_MapperNameOnce == [][C26_Step]_vars
\* a resumed machine has registered its item under the persisted name
C26_Witness ==
    \E p \in Procs :
        /\ pc[p] \in {"wo_recover_clean", "sh_done"}
        /\ loc[p].resumed
        /\ ongoing_item_config.mapper_name \in RegisteredNames
        /\ ongoing_item_config.mapper_name \in mapper_open

\* p takes a step of its own out of position label
StepsFrom(p, label) == pc[p] = label /\ pc'[p] \notin {label, "idle"}
\* the effects that follow the header copy-back
RecoverEffects == {"add_crypt_item", "mount_filesystem", "remove_mount_info",
                   "expand_fs"}
\* the item phase RecoverHeader registers for the OnGoingItemConfig
RecoveredItemRegistered(cfg) ==
    \E i \in DOMAIN crypt_items :
        /\ crypt_items[i].mapper_name = cfg.mapper_name
        /\ crypt_items[i].dev_path = DevIdPath(cfg.original_dev_name_path[2])
        /\ crypt_items[i].luks_header_path = HeaderSentinel
        /\ ~crypt_items[i].uses_cleartext_key
C27_Step ==
    \A p \in Procs :
        /\ StepsFrom(p, "wo_recover_copy")
           => \/ /\ pc'[p] = "wo_recover_add"
                 /\ CopyFinished(ongoing_item_config)
              \/ /\ pc'[p] = "machine_returned"
                 /\ loc'[p].ret = EncryptionPhaseRecoverHeader
                 /\ loc'[p].prims \cap RecoverEffects = {}
                 /\ crypt_items' = crypt_items
                 /\ header_slice_file' = header_slice_file
                 /\ ongoing_item_config'.exists
                 /\ ongoing_item_config'.phase = EncryptionPhaseRecoverHeader
        /\ StepsFrom(p, "wo_recover_add")
           => /\ pc'[p] = "wo_recover_clean"
              /\ "add_crypt_item" \in loc'[p].prims
              /\ \/ RecoveredItemRegistered(ongoing_item_config)'
                 \/ faults' # faults
                 \* the name was registered before: the registry is left alone
                 \/ /\ ongoing_item_config.mapper_name \in RegisteredNames
                    /\ crypt_items' = crypt_items
              /\ "mount_filesystem" \in loc'[p].prims
                 <=> ongoing_item_config.mount_point # ""
        /\ StepsFrom(p, "wo_recover_clean")
           => /\ pc'[p] = "wo_recover_done"
              /\ ~header_slice_file'
              /\ "remove_mount_info" \in loc'[p].prims
                 <=> ongoing_item_config.mount_point # ""
        /\ StepsFrom(p, "wo_recover_done")
           => /\ pc'[p] = "wo_expand"
              /\ ongoing_item_config'.exists
              /\ ongoing_item_config'.phase = EncryptionPhaseDone
        /\ StepsFrom(p, "wo_expand")
           => /\ pc'[p] = "machine_returned"
              /\ "expand_fs" \in loc'[p].prims
              /\ ~ongoing_item_config'.exists
              /\ loc'[p].ret = EncryptionPhaseDone
RecoverHeaderFailed ==
    \E p \in Procs :
        /\ pc[p] = "machine_returned"
        /\ loc[p].machine = "wo"
        /\ loc[p].ret = EncryptionPhaseRecoverHeader

\* the OnGoingItemConfig is one of the machine with separate header
IsShConfig(cfg) == cfg.exists /\ ~none_or_empty(cfg.luks_header_file_path)
C28_Step ==
    /\ \A p \in Procs :
        StepsFrom(p, "sh_fresh")
        => /\ "encrypt_disk" \notin loc'[p].prims
           /\ \/ /\ pc'[p] = "machine_returned"
                 /\ loc'[p].ret = EncryptionPhaseEncryptDevice
                 /\ faults' # faults
                 /\ ongoing_item_config' = ongoing_item_config
                 /\ ~ongoing_item_config'.exists
              \/ /\ pc'[p] = "sh_loop"
                 /\ faults' = faults
                 /\ IsShConfig(ongoing_item_config')
                 /\ ongoing_item_config'.luks_header_file_path =
                        HeaderFilePath(ongoing_item_config'.mapper_name)
                 /\ ongoing_item_config'.phase = EncryptionPhaseEncryptDevice
    /\ IsShConfig(ongoing_item_config)
       => ongoing_item_config.phase \in
              {EncryptionPhaseEncryptDevice, EncryptionPhaseCopyData,
               EncryptionPhaseDone}
    /\ (/\ IsShConfig(ongoing_item_config)
        /\ IsShConfig(ongoing_item_config')
        /\ ongoing_item_config'.phase # ongoing_item_config.phase)
       => \/ /\ ongoing_item_config.phase = EncryptionPhaseEncryptDevice
             /\ ongoing_item_config'.phase = EncryptionPhaseCopyData
          \/ /\ ongoing_item_config.phase = EncryptionPhaseCopyData
             /\ ongoing_item_config'.phase = EncryptionPhaseDone
\* C28: separate-header start.  A fresh call whose header-file allocation
\* fails returns EncryptDevice with no OnGoingItemConfig persisted and
\* encrypt_disk not invoked; one whose allocation succeeds commits the
\* header path with phase EncryptDevice before encrypt_disk, and the phase
\* then only goes EncryptDevice, CopyData, Done.
C28_SeparateHeaderStart == [][C28_Step]_vars
\* encrypt_disk has run on the header file a fresh call allocated
C28_Witness ==
    \E p \in Procs :
        /\ pc[p] = "sh_encrypted"
        /\ ~loc[p].resumed
        /\ loc[p].prims = {"create_luks_header", "encrypt_disk"}
        /\ IsShConfig(ongoing_item_config)
        /\ ongoing_item_config.phase = EncryptionPhaseEncryptDevice
\* a fresh call returned because the header file could not be allocated
HeaderAllocationFailed ==
    \E p \in Procs :
        /\ pc[p] = "machine_returned"
        /\ loc[p].machine = "sh"
        /\ loc[p].prims = {"create_luks_header"}
        /\ loc[p].failed
        /\ ~ongoing_item_config.exists

\* the item phase CopyData of the machine with separate header registers
ShItemRegistered(cfg) ==
    \E i \in DOMAIN crypt_items :
        /\ crypt_items[i].mapper_name = cfg.mapper_name
        /\ crypt_items[i].luks_header_path = cfg.luks_header_file_path
        /\ ~crypt_items[i].uses_cleartext_key
\* the cursor of a copy of the whole device from its end into the mapper
WholeDeviceFromEnd(cfg) ==
    /\ cfg.current_source_path = cfg.original_dev_path
    /\ cfg.current_destination = MapperPath(cfg.mapper_name)
    /\ cfg.current_total_copy_size = cfg.device_size
    /\ cfg.from_end
C29_Step ==
    \A p \in Procs :
        /\ (StepsFrom(p, "sh_loop")
            /\ loc[p].current_phase = EncryptionPhaseCopyData)
           => /\ "luks_open" \in loc'[p].prims
                 <=> ongoing_item_config.mapper_name \notin mapper_open
              /\ \/ /\ pc'[p] = "sh_opened"
                    /\ ongoing_item_config.mapper_name \in mapper_open'
                 \/ /\ pc'[p] = "machine_returned"
                    /\ faults' # faults
                    /\ loc'[p].ret = EncryptionPhaseCopyData
                    /\ "copy" \notin loc'[p].prims
                    /\ ongoing_item_config' = ongoing_item_config
        /\ pc'[p] = "sh_data_copy" => WholeDeviceFromEnd(ongoing_item_config')
        /\ StepsFrom(p, "sh_data_copy")
           => \/ pc'[p] = "sh_add" /\ CopyFinished(ongoing_item_config)
              \/ /\ pc'[p] = "machine_returned"
                 /\ loc'[p].ret = EncryptionPhaseCopyData
                 /\ crypt_items' = crypt_items
        /\ StepsFrom(p, "sh_add")
           => /\ pc'[p] = "sh_done"
              /\ \/ ShItemRegistered(ongoing_item_config)'
                 \/ faults' # faults
                 \* the name was registered before: the registry is left alone
                 \/ /\ ongoing_item_config.mapper_name \in RegisteredNames
                    /\ crypt_items' = crypt_items
              /\ "mount_filesystem" \in loc'[p].prims
                 <=> ongoing_item_config.mount_point # ""
              /\ "remove_mount_info" \in loc'[p].prims
                 <=> ongoing_item_config.mount_point # ""
        /\ StepsFrom(p, "sh_done")
           => /\ pc'[p] = "sh_clear"
              /\ ongoing_item_config'.exists
              /\ ongoing_item_config'.phase = EncryptionPhaseDone
        /\ StepsFrom(p, "sh_clear")
           => /\ pc'[p] = "machine_returned"
              /\ ~ongoing_item_config'.exists
              /\ loc'[p].ret = EncryptionPhaseDone
ReopenedOnResume ==
    \E p \in Procs :
        /\ pc[p] = "sh_data_copy"
        /\ loc[p].resumed
        /\ "luks_open" \in loc[p].prims

\* the cursor of the copy that decrypts item: from the end of its mapper
\* device into its raw device, over the size of the mapper device
DecryptCursor(cfg, item, mapper_size) ==
    /\ cfg.exists
    /\ cfg.phase = DecryptionPhaseCopyData
    /\ cfg.current_source_path = MapperPath(item.mapper_name)
    /\ cfg.current_destination = item.dev_path
    /\ item.dev_path[2] \in DOMAIN file_system
    /\ cfg.current_total_copy_size = mapper_size
    /\ cfg.from_end
C30_Step ==
    \A p \in Procs :
        /\ StepsFrom(p, "dec_fresh")
           => /\ pc'[p] = "dec_copy"
              /\ "copy" \notin loc'[p].prims
              /\ ongoing_item_config'.current_slice_index = 0
              /\ loc[p].mapper_size = PayloadSize(loc[p].crypt_item)
        /\ pc'[p] = "dec_copy"
           => DecryptCursor(ongoing_item_config', loc'[p].crypt_item,
                            loc'[p].mapper_size)
\* C30: decrypt copy setup.  A fresh decrypt_inplace_copy_data commits phase
\* DecryptionPhaseCopyData, source = the mapper device of the crypt item,
\* destination = its raw device, total size = the size of the mapper device,
\* from_end and slice 0 before the copy is invoked, and the copy runs under
\* that cursor.
C30_DecryptCopySetup == [][C30_Step]_vars
\* a fresh decryption stands before its first slice
C30_Witness ==
    \E p \in Procs :
        /\ pc[p] = "dec_copy"
        /\ "copy" \notin loc[p].prims
        /\ ongoing_item_config.current_slice_index = 0
        /\ DecryptCursor(ongoing_item_config, loc[p].crypt_item,
                         loc[p].mapper_size)

\* the crypt item the daemon is decrypting had a mount point
HadMountPoint(item) == item.mount_point \notin {"", MountSentinel}
\* the registry loses a name or a mapper is closed in a step of p
ClosesOrRemoves(p) ==
    /\ pc'[p] # "idle"
    /\ \/ RegisteredNames # {crypt_items'[i].mapper_name :
                                 i \in DOMAIN crypt_items'}
       \/ ~(mapper_open \subseteq mapper_open')
C31_Step ==
    \A p \in Procs :
        \* the fstab entry is restored in the step that commits Done, and
        \* only there, for an item with a real mount point
        /\ (StepsFrom(p, "dec_copy") /\ pc'[p] = "dec_clear")
           => /\ ongoing_item_config'.exists
              /\ ongoing_item_config'.phase = DecryptionPhaseDone
              /\ "restore_mount_info" \in loc'[p].prims
                     <=> HadMountPoint(loc[p].crypt_item)
        /\ ("restore_mount_info" \in loc'[p].prims
                /\ "restore_mount_info" \notin loc[p].prims)
           => StepsFrom(p, "dec_copy") /\ pc'[p] = "dec_clear"
        \* the config is deleted with Done committed, and Done returned
        /\ StepsFrom(p, "dec_clear")
           => /\ ongoing_item_config.phase = DecryptionPhaseDone
              /\ ongoing_item_config' = NoOngoingItemConfig
              /\ pc'[p] = "machine_returned"
              /\ loc'[p].ret = DecryptionPhaseDone
        \* the caller closes and removes after all that, and only then
        /\ (InDecrypt(pc[p], loc[p].machine) /\ ClosesOrRemoves(p))
           => /\ pc[p] = "machine_returned"
              /\ loc[p].ret = DecryptionPhaseDone
              /\ ~ongoing_item_config.exists
              /\ "restore_mount_info" \in loc[p].prims
                     <=> HadMountPoint(loc[p].crypt_item)
              /\ mapper_open' = mapper_open \ {loc[p].crypt_item.mapper_name}
              /\ crypt_items' = remove_crypt_item(crypt_items, loc[p].crypt_item)
        /\ (StepsFrom(p, "machine_returned") /\ loc[p].machine = "dec"
                /\ loc[p].ret # DecryptionPhaseDone)
           => /\ crypt_items' = crypt_items
              /\ mapper_open' = mapper_open
\* C31: decrypt completion order.  For each crypt item the fstab entry is
\* restored (only if the item had a mount point other than the "None"
\* sentinel), DecryptionPhaseDone is committed and the OnGoingItemConfig
\* deleted before the caller closes the mapper and removes the CryptItem from
\* the registry; the mapper is never closed and the item never removed for an
\* item whose decryption did not return DecryptionPhaseDone.
C31_DecryptCompletionOrder == [][C31_Step]_vars
\* the caller has just closed and removed an item that was mounted, its
\* fstab entry restored
C31_Witness ==
    \E p \in Procs :
        /\ pc[p] = "disable_loop"
        /\ "restore_mount_info" \in loc[p].prims
        /\ HadMountPoint(loc[p].crypt_item)
        /\ loc[p].ret = DecryptionPhaseDone
        /\ loc[p].crypt_item.mapper_name \notin RegisteredNames
        /\ loc[p].crypt_item.mapper_name \notin mapper_open
\* an item without a mount point is removed with nothing restored
RemovedUnmounted ==
    \E p \in Procs :
        /\ pc[p] = "disable_loop"
        /\ loc[p].ret = DecryptionPhaseDone
        /\ loc[p].crypt_item.mount_point = MountSentinel
        /\ "restore_mount_info" \notin loc[p].prims
        /\ loc[p].crypt_item.mapper_name \notin RegisteredNames

\* the positions at which a machine runs its data copy
DataCopyLabels == {"wo_data_copy", "sh_data_copy"}
\* p moves to position label
Enters(p, label) == pc'[p] = label /\ pc[p] # label
\* the places where a new copy begins
CursorResetPoint(p) ==
    \/ Enters(p, "wo_backup_copy")
    \/ Enters(p, "wo_recover_copy")
    \/ /\ ongoing_item_config'.phase # ongoing_item_config.phase
       /\ ongoing_item_config'.phase \in {EncryptionPhaseEncryptDevice,
                                          EncryptionPhaseCopyData}
    \/ StepsFrom(p, "dec_fresh")
    \/ StepsFrom(p, "sh_fresh") /\ ongoing_item_config'.exists
    \/ StepsFrom(p, "wo_fresh")
C32_Step ==
    \A p \in Procs :
        /\ (CursorResetPoint(p) /\ ongoing_item_config'.exists)
           => ongoing_item_config'.current_slice_index = 0
        \* entering the data copy, fresh or resumed, keeps the cursor
        /\ (\E l \in DataCopyLabels : Enters(p, l))
           => ongoing_item_config'.current_slice_index =
                  ongoing_item_config.current_slice_index
        \* and the copy goes on from it, slice by slice
        /\ (pc[p] \in DataCopyLabels /\ ongoing_item_config' # ongoing_item_config)
           => \/ ongoing_item_config'.current_slice_index =
                     ongoing_item_config.current_slice_index + 1
              \/ /\ CopyFinished(ongoing_item_config)
                 /\ ongoing_item_config'.current_slice_index =
                        ongoing_item_config.current_slice_index
        \* the cursor goes back to slice 0 nowhere else
        /\ (/\ lock = p /\ pc'[p] # "idle"
            /\ ongoing_item_config.exists /\ ongoing_item_config'.exists
            /\ ongoing_item_config.current_slice_index > 0
            /\ ongoing_item_config'.current_slice_index = 0)
           => CursorResetPoint(p)
\* C32: slice cursor handling.  The slice index is 0 after every step that
\* begins a new copy (entering the header copy of BackupHeader, the commits
\* that advance to EncryptDevice and to CopyData, entering RecoverHeader, a
\* fresh decrypt and a fresh separate-header operation), and it is not reset
\* when a machine enters CopyData, so a data copy that is resumed continues
\* from the last committed slice.
C32_SliceCursor == [][C32_Step]_vars
\* a resumed machine stands at its data copy with slices already committed
C32_Witness ==
    \E p \in Procs :
        /\ pc[p] = "wo_data_copy"
        /\ loc[p].resumed
        /\ "copy" \notin loc[p].prims
        /\ ongoing_item_config.current_slice_index > 0
        /\ ~CopyFinished(ongoing_item_config)
\* the same for the machine with a separate header
ShResumedMidCopy ==
    \E p \in Procs :
        /\ pc[p] = "sh_data_copy"
        /\ loc[p].resumed
        /\ "copy" \notin loc[p].prims
        /\ ongoing_item_config.current_slice_index > 0
        /\ ~CopyFinished(ongoing_item_config)
\* the header copy-back starts at slice 0 after the data copy ended further on
CopyBackFromZero ==
    \E p \in Procs :
        /\ pc[p] = "wo_recover_copy"
        /\ "copy" \in loc[p].prims
        /\ ongoing_item_config.current_slice_index = 0

\* the phases in which the header block is only in the scratch file
ScratchPhases == {EncryptionPhaseEncryptDevice, EncryptionPhaseCopyData,
                  EncryptionPhaseRecoverHeader}
\* C33: scratch header availability.  For the encryption without a separate
\* header, whenever the persisted phase is EncryptDevice, CopyData or
\* RecoverHeader the scratch file that holds the backed-up header block
\* exists, wherever the daemon is or was killed; in particular the scratch
\* file is never deleted while the persisted phase is still RecoverHeader.
C33_ScratchHeaderAvailable ==
    (IsWoConfig(ongoing_item_config)
        /\ ongoing_item_config.phase \in ScratchPhases)
    => header_slice_file

\* an encrypt-in-place machine has returned Done to its caller
ReturnedDone(p) ==
    /\ pc[p] = "machine_returned"
    /\ loc[p].machine \in {"wo", "sh"}
    /\ loc[p].ret = EncryptionPhaseDone
\* C34: Done implies registered.  Whenever either encrypt-in-place machine
\* has returned EncryptionPhaseDone for a device, the registry contains a
\* CryptItem with the mapper name of that operation; a failed add_crypt_item
\* never yields a Done result with the device missing from the registry.
C34_DoneImpliesRegistered ==
    \A p \in Procs : ReturnedDone(p) => Registered(loc[p].mapper_name)

\* the statuses a daemon run ends with: do_exit with success or error, and
\* a plain return
ExitStatuses == {"success", "error", "returned"}
C35_Step ==
    \A p \in Procs :
        \* every exit path of a run that holds the lock leads to the finally
        \* block
        /\ (lock = p /\ status'[p] # status[p] /\ status'[p] \in ExitStatuses)
           => pc'[p] = "release" /\ lock' = p
        \* whose step gives the lock up
        /\ (lock = p /\ pc[p] # "idle" /\ pc'[p] = "idle") => lock' = NoProc
        \* and the run ends nowhere else
        /\ (lock = p /\ lock' # p) => pc'[p] = "idle"
FailedBeforeRelease ==
    \E p \in Procs :
        /\ lock = p
        /\ pc[p] = "release"
        /\ status[p] = "error"

\* a run of disable_encryption
DisableRun ==
    /\ HandlerStep
    /\ settings.operation = DisableEncryption
    /\ settings' = settings
\* every registered item is recorded as unlocked by a cleartext key
AllCleartext(items) ==
    \A i \in DOMAIN items : items[i].uses_cleartext_key
\* the step reboots the VM
Reboots ==
    /\ handler_exit' = "reboot"
    /\ mapper_open' = {}
C36_Step ==
    \* the mark is committed by disable_encryption only, with every item
    \* updated, and the run goes on to the reboot
    /\ (decryption_marker'.exists /\ ~decryption_marker.exists)
       => /\ DisableRun
          /\ Len(crypt_items') = Len(crypt_items)
          /\ AllCleartext(crypt_items')
          /\ \A i \in DOMAIN crypt_items :
                 /\ crypt_items'[i].mapper_name = crypt_items[i].mapper_name
                 /\ crypt_items'[i].dev_path[1] # "/dev"
          /\ decryption_marker'.command = DisableEncryption
          /\ Reboots
    \* an encrypted OS volume is refused
    /\ (DisableRun /\ last_seq' # last_seq /\ os_state # "uninitialized")
       => handler_exit' = "error" /\ crypt_items' = crypt_items
    \* a run that ends in an error, or that leaves an item without its
    \* cleartext key, commits nothing and does not reboot
    /\ (DisableRun /\ (handler_exit' = "error" \/ ~AllCleartext(crypt_items')))
       => /\ decryption_marker' = decryption_marker
          /\ bek_passphrase' = bek_passphrase
          /\ encryption_config' = encryption_config
          /\ ~Reboots
          /\ UNCHANGED <<mapper_open, processes>>
AddFailedMidway ==
    /\ handler_exit = "error"
    /\ settings.operation = DisableEncryption
    /\ ~decryption_marker.exists
    /\ Len(crypt_items) = 2
    /\ crypt_items[1].uses_cleartext_key
    /\ ~crypt_items[2].uses_cleartext_key

\* the mapper names of a list of crypt items
NamesOf(items) == {items[i].mapper_name : i \in DOMAIN items}
\* in the loop of disable_encryption_all_in_place the registry holds the
\* items still to decrypt and no other: the ones done were removed
RemainingRegistered ==
    \A p \in Procs :
        pc[p] = "disable_loop" => RegisteredNames = NamesOf(loc[p].todo_items)
C37_Step ==
    \A p \in Procs :
        \* no failed item: the loop went through every item
        /\ Enters(p, "decrypt_succeeded")
           => /\ pc[p] = "disable_loop"
              /\ loc[p].todo_items = <<>>
              /\ crypt_items' = <<>>
        \* the EncryptionConfig and the mark are cleared there and only there
        /\ (InDecrypt(pc[p], loc[p].machine) /\ pc'[p] # "idle"
                /\ encryption_config' # encryption_config)
           => /\ pc[p] = "decrypt_succeeded"
              /\ encryption_config' = NoEncryptionConfig
              /\ crypt_items = <<>>
        /\ (InDecrypt(pc[p], loc[p].machine) /\ pc'[p] # "idle"
                /\ decryption_marker' # decryption_marker)
           => /\ pc[p] = "decrypt_clear_mark"
              /\ decryption_marker' = NoMark
              /\ ~encryption_config.exists
              /\ crypt_items = <<>>
              /\ status'[p] = "success"
        \* a failed item: the mark, the config, the failed item and the ones
        \* after it are all still there
        /\ (InDecrypt(pc[p], loc[p].machine) /\ Reports(p, "error"))
           => /\ decryption_marker'.exists
              /\ decryption_marker' = decryption_marker
              /\ encryption_config' = encryption_config
              /\ loc'[p].todo_items # <<>>
              /\ loc'[p].crypt_item = Head(loc'[p].todo_items)
              /\ NamesOf(loc'[p].todo_items) \subseteq
                     {crypt_items'[i].mapper_name : i \in DOMAIN crypt_items'}
\* C37: decrypt-all completion.  daemon_decrypt clears the EncryptionConfig
\* and the decryption mark only when disable_encryption_all_in_place
\* reported no failed item, and then every CryptItem that was registered at
\* the start has been removed from the registry; when an item failed, the
\* decryption mark, the EncryptionConfig and the failed and the remaining
\* CryptItems are all still present.
C37_DecryptAllCompletion == []RemainingRegistered /\ [][C37_Step]_vars
\* the decryption of the second item failed after the first was decrypted
\* and removed: the run ends in an error with the mark, the config and the
\* second item still there
C37_Witness ==
    \E p \in Procs :
        /\ pc[p] = "release"
        /\ status[p] = "error"
        /\ loc[p].machine = "dec"
        /\ Len(loc[p].todo_items) = 1
        /\ loc[p].crypt_item.mapper_name = MapperNames[2]
        /\ RegisteredNames = {MapperNames[2]}
        /\ mapper_open = {MapperNames[2]}
        /\ decryption_marker.exists
        /\ encryption_config.exists
\* two items were decrypted and the mark cleared
DecryptedAll ==
    \E p \in Procs :
        /\ pc[p] = "release"
        /\ status[p] = "success"
        /\ loc[p].machine = "dec"
        /\ crypt_items = <<>>
        /\ ~decryption_marker.exists
        /\ ~encryption_config.exists

\* the step of daemon_encrypt_data_volumes that finds an OnGoingItemConfig
ResumeStep(p) ==
    /\ StepsFrom(p, "data_volumes")
    /\ ongoing_item_config.exists
C38_Step ==
    \A p \in Procs :
        /\ ResumeStep(p)
           => /\ loc'[p].resumed
              \* the recorded mount point, if any, is unmounted
              /\ loc'[p].umounted =
                     {ongoing_item_config.mount_point} \ {""}
              \* the machine is chosen by the recorded header file path
              /\ IF ongoing_item_config.luks_header_file_path = NonePath
                 THEN loc'[p].machine = "wo" /\ pc'[p] = "wo_loop"
                 ELSE loc'[p].machine = "sh" /\ pc'[p] = "sh_loop"
              \* and runs on the loaded config
              /\ ongoing_item_config' = ongoing_item_config
              /\ loc'[p].mapper_name = ongoing_item_config.mapper_name
              /\ loc'[p].current_phase = ongoing_item_config.phase
              \* nothing is selected or stamped
              /\ loc'[p].todo_devices = loc[p].todo_devices
              /\ loc'[p].dev = loc[p].dev
              /\ encryption_config' = encryption_config
              /\ encryption_marker' = encryption_marker
              /\ crypt_items' = crypt_items
        \* a resume that does not return Done raises
        /\ (/\ StepsFrom(p, "machine_returned")
            /\ loc[p].machine \in {"wo", "sh"}
            /\ loc[p].resumed
            /\ loc[p].ret # EncryptionPhaseDone)
           => /\ pc'[p] = "release"
              /\ status'[p] = "error"
              /\ persisted' = persisted
        \* and a resuming call starts no device
        /\ (loc[p].resumed /\ pc'[p] # pc[p])
           => pc'[p] \notin {"bulk_loop", "format_loop", "wo_fresh",
                             "sh_fresh", "os_volume", "encrypt_returned"}
\* C38: resume dispatch.  When an OnGoingItemConfig exists at the start of
\* daemon_encrypt_data_volumes, the daemon unmounts the recorded mount point
\* if there is one and resumes the machine without a separate header if the
\* recorded header file path is absent or empty and the machine with a
\* separate header otherwise, on the loaded config; no device is selected
\* and nothing is stamped before the resume, and a resume that does not
\* return Done raises an error instead of starting new devices.
C38_ResumeDispatch == [][C38_Step]_vars
\* a resumed machine without a separate header returned short of Done after
\* the recorded mount point was unmounted, and the run ended in an error
C38_Witness ==
    \E p \in Procs :
        /\ pc[p] = "release"
        /\ status[p] = "error"
        /\ loc[p].resumed
        /\ loc[p].machine = "wo"
        /\ loc[p].umounted # {}
        /\ loc[p].ret \notin {"", EncryptionPhaseDone}
\* the machine with a separate header resumes a config that records the
\* header file path
ResumedSeparateHeader ==
    \E p \in Procs :
        /\ pc[p] = "sh_loop"
        /\ loc[p].resumed
        /\ loc[p].umounted = {}
        /\ ~none_or_empty(ongoing_item_config.luks_header_file_path)
        /\ ongoing_item_config.phase = EncryptionPhaseCopyData

C39_Step ==
    \A p \in Procs :
        \* a call that returns a false value is a resume whose machine
        \* returned Done, and it has deleted the OnGoingItemConfig
        /\ Enters(p, "data_volumes") /\ pc[p] # "locked"
           => /\ pc[p] = "machine_returned"
              /\ loc[p].resumed
              /\ loc[p].ret = EncryptionPhaseDone
              /\ loc[p].invocations = 1
              /\ ~ongoing_item_config'.exists
        \* so the second call finds no config and does not resume
        /\ (StepsFrom(p, "data_volumes") /\ loc[p].invocations >= 1)
           => /\ ~ongoing_item_config.exists
              /\ ~loc'[p].resumed
              /\ loc'[p].invocations = 2
        \* every other call returns True or raises
        /\ (/\ lock = p /\ pc[p] # pc'[p]
            /\ pc'[p] \in {"os_volume", "encrypt_returned"})
           => ~loc[p].resumed
\* C39: the retry loop in daemon_encrypt terminates.  Within one run of the
\* daemon daemon_encrypt_data_volumes is invoked at most twice, once to
\* resume a persisted OnGoingItemConfig and once for the marked command:
\* every invocation returns True, raises, or has deleted the
\* OnGoingItemConfig that made it return a false value.
C39_RetryLoopTerminates ==
    /\ [](\A p \in Procs : loc[p].invocations <= 2)
    /\ [][C39_Step]_vars
\* after a resume that returned Done the second call went on to the devices
\* of the marked command
C39_Witness ==
    \E p \in Procs :
        /\ pc[p] = "bulk_loop"
        /\ loc[p].invocations = 2
        /\ loc[p].todo_devices # <<>>
        /\ ~ongoing_item_config.exists
\* the second call returned True at once because no mark is left
SecondCallUnmarked ==
    \E p \in Procs :
        /\ pc[p] \in {"os_volume", "encrypt_returned"}
        /\ loc[p].invocations = 2
        /\ ~encryption_marker.exists

HasKey(m, k) == \E s \in 1..NumSlots : keyslots[m][s] = k
\* a step that takes a passphrase out of a key slot of volume m
RemovesKey(m) ==
    \E s \in 1..NumSlots :
        keyslots[m][s] # "" /\ keyslots'[m][s] # keyslots[m][s]
C40_Step ==
    \* the removal: in the branch at or above the recorded sequence number,
    \* with a backup that differs from the key file, and only of the
    \* passphrase of the backup; every registered volume then holds the
    \* passphrase of the key file, which is the one of the settings
    /\ \A m \in DOMAIN keyslots :
          RemovesKey(m)
          => /\ encryption_config.secret_seq_num >= cur_seq
             /\ bek_backup # ""
             /\ bek_backup # bek_file
             /\ \A s \in 1..NumSlots :
                   keyslots'[m][s] # keyslots[m][s]
                   => keyslots[m][s] = bek_backup /\ keyslots'[m][s] = ""
             /\ \A r \in RegisteredNames : HasKey(r, bek_file)
             /\ passphrase = "" \/ passphrase = bek_file
             /\ bek_file' = bek_file
    \* the add phase: the backup is written after every registered volume
    \* got a key, the new passphrase is stored after the backup, and the
    \* stamp comes after both
    /\ (bek_backup' # bek_backup /\ bek_backup' # "")
       => /\ encryption_config.secret_seq_num < cur_seq
          /\ bek_backup' = bek_file
          /\ \A r \in RegisteredNames : keyslots'[r] # keyslots[r]
    /\ bek_file' # bek_file
       => /\ bek_backup' = bek_file
          /\ \A r \in RegisteredNames :
                \E s \in 1..NumSlots :
                    keyslots'[r][s] = bek_file' /\ keyslots[r][s] = ""
    /\ (handler_exit' = "reboot" /\ encryption_config' # encryption_config)
       => /\ encryption_config'.secret_seq_num = cur_seq
          /\ bek_backup' = bek_file
          /\ passphrase = "" \/ bek_file' = passphrase
\* C40: key rotation ordering.  update_encryption_settings removes the old
\* passphrase from the key slots of a volume only in an invocation in which
\* the recorded secret sequence number is not below the sequence number of
\* the invocation, that is after an earlier invocation added the new key to
\* every registered CryptItem, backed up the old key file, stored the new
\* passphrase and stamped the settings; nothing is removed when the key
\* file equals the backup, and the add phase removes no key.
C40_KeyRotationOrdering == [][C40_Step]_vars
\* a rotation went through: the old passphrase is gone from both volumes,
\* which hold the passphrase of the key file, and the backup is deleted
C40_Witness ==
    /\ handler_exit = "success"
    /\ Len(crypt_items) = 2
    /\ last_seq = cur_seq
    /\ bek_backup = ""
    /\ bek_file # "K0"
    /\ \A r \in RegisteredNames : HasKey(r, bek_file) /\ ~HasKey(r, "K0")
\* the second invocation found the key file equal to the backup and left
\* the old passphrase in its slots
RemovalSkipped ==
    /\ handler_exit = "success"
    /\ Len(crypt_items) = 2
    /\ last_seq = cur_seq
    /\ bek_backup = ""
    /\ bek_file # "K0"
    /\ \A r \in RegisteredNames :
          /\ HasKey(r, "K0")
          /\ Cardinality({s \in 1..NumSlots : keyslots[r][s] = bek_file}) = 2
=============================================================================

